---- MODULE Spec2Model ----
(***************************************************************************)
(* PowerBoot (src/src/index.js) and EmberApp (src/src/ember-app.js): the   *)
(* pool of one render instance, the acquisition generator, reload and      *)
(* release, and the visit protocol of an instance with its deadline timer. *)
(*                                                                         *)
(* Granularity. One action is a call of visit() or reload() up to its first *)
(* await, or the resumption of an await whose promise is settled by the    *)
(* browser, the listener, a timer or setImmediate, together with all the   *)
(* synchronous code and promise continuations that follow it up to the     *)
(* next such await.  Calls of visit() and reload() can be made back to     *)
(* back, so the first await of visit() is a step of its own.               *)
(***************************************************************************)
EXTENDS Integers, FiniteSets, Sequences, TLC

\* Number of PowerBoot.visit calls made on the coordinator over a run.
MaxVisits == 3

\* Number of those calls in the runs that vary every option of a visit.
MaxDetailedVisits == 1

\* Number of PowerBoot.reload calls made on the coordinator over a run that
\* varies every option of a visit, and over a run of several plain visits.
MaxReloads == 2
MaxPoolReloads == 1

\* Number of visits in flight at once in the runs of visits with a deadline.
MaxInFlight == 1

\* Number of EmberApp.visit calls made on one instance in the runs that drive
\* an instance directly.
MaxAppVisits == 2

\* Number of own keys of the shoebox mapping a rendered application returns.
MaxShoeboxKeys == 1

\* The positive destroyAppInstanceInMs the visits use (0 stands for an absent,
\* non-numeric or non-positive option: `destroyAppInstanceInMs > 0` is false).
DeadlineMs == 5

Visits == 1..MaxVisits

DetailedVisits == {v \in Visits : v <= MaxDetailedVisits}

\* EmberApp objects are numbered in creation order; 0 is null / undefined.
Apps == 1..MaxVisits

\* The literal `true` that the generator yields at index.js:246.
TrueVal == MaxVisits + 1

VARIABLES
  _instance,               \* PowerBoot._instance: 0 (null) or an EmberApp
  isWorking,               \* PowerBoot.isWorking (generator, release)
  _isWorking,              \* PowerBoot._isWorking (constructor, reload)
  _shouldDestroyInstance,  \* PowerBoot._shouldDestroyInstance
  _appConfig,              \* PowerBoot._appConfig: version of the parsed manifest
  config,                  \* PowerBoot.config: sandboxGlobals, resilient, browser,
                           \* distPath (numbered like the manifest versions)
  _httpServer,             \* PowerBoot._httpServer is set
  apps,                    \* the EmberApp objects created so far
  nApps,                   \* how many EmberApp objects were created
  visits,                  \* the PowerBoot.visit calls: locals, Result, timer
  nReloads,                \* how many reload calls were made
  res,                     \* a Result object used on its own
  info,                    \* a FastBootInfo object used on its own
  proc                     \* the coordinator's construction, its hooks on the
                           \* process, and its close

vars == << _instance, isWorking, _isWorking, _shouldDestroyInstance, _appConfig,
           config, _httpServer, apps, nApps, visits, nReloads, res, info, proc >>

pool == << _instance, isWorking, _shouldDestroyInstance >>

-----------------------------------------------------------------------------
(* Errors *)

Err(k) == [kind |-> k, ms |-> 0]

NoError == Err("none")

\* ember-app.js:106
DeadlineError(n) == [kind |-> "Deadline", ms |-> n]

\* "instance.visit is not a function" (index.js:121 on `true`), and reads of a
\* property of null or undefined (`this.page` after destroy, `this._instance`
\* in release, `databases[database].name` in clearPageStorage).
TypeError == Err("TypeError")

\* An error of the application or of an evaluation that is of no special class.
RenderError == Err("Render")

\* "Execution context was destroyed": an evaluation cut by a navigation.
CtxDestroyed == Err("CtxDestroyed")

\* "Target closed." / "Session closed.": the page was closed.
TargetClosed == Err("TargetClosed")

\* "Navigation failed because browser has disconnected"
Disconnected == Err("Disconnected")

ErrorKinds == {"none", "Deadline", "TypeError", "Render", "CtxDestroyed",
               "TargetClosed", "Disconnected"}

Errors == [kind : ErrorKinds, ms : {0, DeadlineMs}]

-----------------------------------------------------------------------------
(* State *)

PcValues == {"idle", "awaitServer", "awaitBrowser", "awaitPage", "tick",
             "setContent", "clear", "boot", "run", "wedged", "shoebox",
             "finalize", "done"}

\* The steps of EmberApp.visit during which an evaluation is awaited.
Evaluating == {"clear", "boot", "run", "wedged", "shoebox", "finalize"}

\* EmberApp.visit is executing on visit's instance.
Executing == {"setContent"} \cup Evaluating

\* The steps at which runAppInstance has not returned yet.
BeforeRunReturn == {"clear", "boot", "run", "wedged"}

\* The storage of the page that clearPageStorage addresses (ember-app.js:365-370).
StorageKinds == {"local", "session", "cookie", "idb"}

TimerStates == {"none", "armed", "reloading", "fired", "failed", "cleared"}

NewVisit ==
  [ pc             |-> "idle",
    direct         |-> FALSE,    \* EmberApp.visit was called directly
    optResilient   |-> "undef",  \* options.resilient
    resilient      |-> FALSE,    \* local `resilient` of PowerBoot.visit
    ms             |-> 0,        \* destroyAppInstanceInMs
    disableShoebox |-> FALSE,    \* options.disableShoebox
    capConfig      |-> 0,        \* generator local _appConfig
    capSandbox     |-> 0,        \* generator local sandboxGlobals
    pass           |-> 0,        \* parity of the generator's retries
    instance       |-> 0,        \* local `instance` of PowerBoot.visit
    result         |-> FALSE,    \* `result` of PowerBoot.visit is assigned
    error          |-> NoError,  \* result.error
    hasInfo        |-> FALSE,    \* result._fastbootInfo is set
    harvested      |-> FALSE,    \* result._html is set
    finalized      |-> FALSE,    \* result.finalized
    captured       |-> NoError,  \* local `error` of _visitRoute
    caught         |-> NoError,  \* `error` of the catch of EmberApp.visit
    shoebox        |-> 0,        \* own keys of the returned shoebox
    written        |-> 0,        \* shoebox script elements written
    timer          |-> "none",   \* destroyAppInstanceTimer and its callback
    didDestroy     |-> FALSE,    \* local didDestroy of EmberApp.visit
    firedEarly     |-> FALSE,    \* the timer fired before runAppInstance returned
    outcome        |-> "none",   \* how the promise of PowerBoot.visit settled
    rejection      |-> NoError ] \* what it rejected with

\* ember-app.js:31-45
NewApp(cfg, sandbox) ==
  [ exists          |-> TRUE,
    config          |-> cfg,
    sandboxGlobals  |-> sandbox,
    destroyed       |-> FALSE,   \* page closed and this.page null
    _hasInitialized |-> FALSE,   \* set by the constructor and by the timer
    hasInitialized  |-> FALSE,   \* read and set by _visitRoute
    bootCount       |-> 0,       \* times the boot injection was started
    stored          |-> {} ]     \* kinds of storage of the page that hold data

NoApp == [NewApp(0, 0) EXCEPT !.exists = FALSE]

-----------------------------------------------------------------------------
(* Strings and documents *)

\* A string is a sequence of pieces of text.  Two pieces are told apart by the
\* code: "</head>", which HTML_HEAD_REGEX looks for, and SHOEBOX_TAG_PATTERN.
\* The other pieces hold neither, also across their borders.
HeadEnd == "</head>"

\* result.js:3
SHOEBOX_TAG_PATTERN == "<script type=\"fastboot/shoebox\""

\* Scripts with a src attribute, as `body > script[src]` selects them
\* (result.js:77).
ScriptSrcA == "<script src=\"a.js\"></script>"
ScriptSrcB == "<script src=\"b.js\"></script>"
SrcScripts == {ScriptSrcA, ScriptSrcB}

\* Children of the page's body that chunks() tells apart by their text:
\* markup, a shoebox script (its text starts with the pattern), and a script
\* whose text holds "</head>".
TextPieces == {"<p>", SHOEBOX_TAG_PATTERN, HeadEnd}

\* The children of the page's body: those, and scripts with a src attribute.
BodyPieces == TextPieces \cup SrcScripts

\* Number of calls of _finalize made on the Result.
MaxFinalizeCalls == 2

\* Number of pieces of the page's body.
MaxBodyLen == 2

Bodies == UNION {[1..n -> BodyPieces] : n \in 0..MaxBodyLen}

\* The bodies without a script with a src attribute.
PlainBodies == UNION {[1..n -> TextPieces] : n \in 0..MaxBodyLen}

\* result.js:75-76
BoundaryStart == "<script type=\"x/boundary\" id=\"fastboot-body-start\"></script>"
BoundaryEnd == "<script type=\"x/boundary\" id=\"fastboot-body-end\"></script>"

\* A value that is a string or undefined.
Undefined == [def |-> FALSE, s |-> << >>]
Str(s) == [def |-> TRUE, s |-> s]

\* The raw status codes of a response; 0 is one that was never set.
StatusCodes == {0, 200, 204, 299, 300, 307, 399, 400, 418}

Locations == {"", "http://some.example.com/page"}

\* What a call of the page throws: nothing, or an error with its message.
NoPageError == [thrown |-> FALSE, message |-> Undefined]
PageError(m) == [thrown |-> TRUE, message |-> m]

\* Messages of the errors the page's calls throw: none, the empty one,
\* puppeteer's two for a closed page, and one of a failed evaluation.
Messages ==
  { Undefined,
    Str(<< >>),
    Str(<< "Protocol error (Runtime.callFunctionOn): ", "Target closed." >>),
    Str(<< "Protocol error: ", "Session closed.",
           " Most likely the page has been closed." >>),
    Str(<< "Evaluation failed: ReferenceError" >>) }

PageErrors == {PageError(m) : m \in Messages}

\* result.js:11-16 with a fastbootInfo, as the tests build it: the body of the
\* page's document, the response's raw status code and its location header
\* ("" when it has none), and the fields of the Result.
NewResult(body, status, location) ==
  [ page       |-> body,       \* body of the html that setContent is given
    dom        |-> body,       \* children of the body of the page's document
    statusCode |-> status,
    location   |-> location,
    _html      |-> Undefined,
    _head      |-> Undefined,
    _body      |-> Undefined,
    finalized  |-> FALSE,
    calls      |-> 0,          \* calls of _finalize made
    pending    |-> 0,          \* calls of _finalize awaiting their evaluation
    cleanups   |-> 0,          \* marker-class cleanup evaluations started
    rejected   |-> FALSE,      \* the last call of _finalize threw at line 178
    htmlRes    |-> [called |-> FALSE, cached |-> Undefined, out |-> Undefined],
    domRes     |-> [called |-> FALSE, head |-> Undefined, body |-> Undefined],
    caught     |-> NoPageError, \* what the page threw in the last setContent
                                \* or evaluate
    rethrown   |-> FALSE,       \* that call threw it again
    chunksRes  |-> [called |-> FALSE, cached |-> Undefined, threw |-> FALSE,
                    chunks |-> << >>] ]

-----------------------------------------------------------------------------
(* FastBootRequest, FastBootResponse and FastBootInfo *)

\* A value that is not undefined.
Some(x) == [def |-> TRUE, s |-> x]

\* Characters of the Host header and of the entries of a host whitelist.
HostChars == {"a", "b"}
EntryChars == {"/", ".", "a"}

\* Length of a Host header, of a whitelist entry, and of a whitelist.
MaxHostLen == 2
MaxEntryLen == 3
MaxWhitelistLen == 1

Hosts == UNION {[1..n -> HostChars] : n \in 1..MaxHostLen}
Entries == UNION {[1..n -> EntryChars] : n \in 0..MaxEntryLen}

\* hostWhitelist of the manifest: none, or a list of entries.
Whitelists ==
  {Undefined} \cup {Some(w) : w \in UNION {[1..n -> Entries] : n \in 0..MaxWhitelistLen}}

\* Values of a Cookie header: the name=value pairs it lists.
CookieHeaders ==
  { << << "foo", "bar" >> >>,
    << << "foo", "bar" >>, << "foo", "baz" >> >> }

\* The headers object of an incoming request: a Host header and, possibly, a
\* Cookie header, under names written in either case.
RawHeaders ==
  LET hostPart == {(hn :> h) : hn \in {"Host", "host"}, h \in Hosts}
      cookiePart == {(cn :> c) : cn \in {"Cookie", "cookie"}, c \in CookieHeaders}
  IN hostPart \cup {hp @@ cp : hp \in hostPart, cp \in cookiePart}

\* request.cookies as a cookie-parser middleware leaves it: not set, empty, or
\* a mapping.
ParsedCookies == {Undefined, Some(<< >>), Some("sid" :> "1")}

\* The incoming request objects.
RawRequests ==
  {[protocol |-> << "http" >>, headers |-> h, cookies |-> c, query |-> "q",
    url |-> "/", method |-> "GET", body |-> "body"] :
     h \in RawHeaders, c \in ParsedCookies}

\* The response object: its status code (0 when not set) and its _headers.
RawResponse == [statusCode |-> 0, _headers |-> ("location" :> "/next")]

\* The lower-case spelling of a header name.
Lower(name) ==
  CASE name = "Host" -> "host"
    [] name = "Cookie" -> "cookie"
    [] OTHER -> name

\* FastBootHeaders: a mapping of the headers under lower-case names; no
\* headers when it is built on undefined.
FastBootHeaders(headers) ==
  IF ~headers.def THEN << >>
  ELSE [n \in {Lower(k) : k \in DOMAIN headers.s} |->
          headers.s[CHOOSE k \in DOMAIN headers.s : Lower(k) = n]]

\* FastBootHeaders.get: the value under the name in lower case, or nothing.
HeadersGet(headers, name) ==
  IF Lower(name) \in DOMAIN headers THEN Some(headers[Lower(name)])
  ELSE Undefined

\* FastBootHeaders.serialize: the mapping.
HeadersSerialize(headers) == headers

\* cookie.parse (fastboot-request.js:54): the mapping of the names of the
\* pairs to values; the first pair of a name gives its value.
CookieParse(pairs) ==
  [n \in {pairs[i][1] : i \in 1..Len(pairs)} |->
     pairs[CHOOSE i \in 1..Len(pairs) :
             pairs[i][1] = n /\ \A j \in 1..(i - 1) : pairs[j][1] # n][2]]

\* An object's property that may be missing.
Field(obj, name) == IF name \in DOMAIN obj THEN Some(obj[name]) ELSE Undefined

\* fastboot-request.js:44-59.  request.cookies is used when it is truthy (any
\* object is); else request.headers.cookie is parsed when it is there.
extractCookies(request) ==
  IF request.cookies.def THEN request.cookies.s
  ELSE IF Field(request.headers, "cookie").def
       THEN CookieParse(request.headers["cookie"])
       ELSE << >>

\* fastboot-request.js:8-20
FastBootRequest(request, hostWhitelist) ==
  [ hostWhitelist |-> hostWhitelist,
    protocol      |-> request.protocol \o << ":" >>,
    headers       |-> FastBootHeaders(Some(request.headers)),
    queryParams   |-> request.query,
    path          |-> request.url,
    method        |-> request.method,
    body          |-> request.body,
    cookies       |-> extractCookies(request) ]

\* RegExp.prototype.test for a pattern of literal characters and dots: the
\* pattern matches at some position of the string.
RegExpTest(pattern, string) ==
  \E i \in 1..(Len(string) + 1) :
    /\ i + Len(pattern) - 1 <= Len(string)
    /\ \A j \in 1..Len(pattern) :
         pattern[j] = "." \/ pattern[j] = string[i + j - 1]

\* fastboot-request.js:29-34: the callback of `some`
EntryMatches(entry, header) ==
  IF entry # << >> /\ entry[1] = "/" /\ entry[Len(entry)] = "/"
  THEN RegExpTest(SubSeq(entry, 2, Len(entry) - 1), header)
  ELSE entry = header

\* fastboot-request.js:22-42 on a FastBootRequest: it throws, or returns the
\* Host header.
host(req) ==
  IF ~req.hostWhitelist.def THEN [threw |-> TRUE, out |-> Undefined]
  ELSE LET header == HeadersGet(req.headers, "host")
           matchFound == \E i \in 1..Len(req.hostWhitelist.s) :
                           EntryMatches(req.hostWhitelist.s[i], header.s)
       IN IF ~matchFound THEN [threw |-> TRUE, out |-> Undefined]
          ELSE [threw |-> FALSE, out |-> header]

\* fastboot-request.js:85-92
FastBootResponse(response) ==
  [ _response |-> response,
    headers   |-> FastBootHeaders(Field(response, "_headers")) ]

\* index.js:294-305: new FastBootInfo(request, response, options, shoebox);
\* request is an incoming request or undefined.
FastBootInfo(request, response, options, shoebox) ==
  [ _options |-> options,
    request  |-> IF request.def
                 THEN Some(FastBootRequest(request.s, options.hostWhitelist))
                 ELSE Undefined,
    response |-> FastBootResponse(response),
    metadata |-> options.metadata,
    shoebox  |-> shoebox ]

\* The result of a call that was not made.
NotCalled == [called |-> FALSE, threw |-> FALSE, out |-> Undefined]

\* Number of promises given to deferRendering during a visit.
MaxDeferred == 3

\* A FastBootInfo used on its own.  For the shoebox: the value of one of its
\* keys (a string), the text createShoebox makes of it and what the browser's
\* JSON.parse reads from that text.  For the request: the object the
\* constructor built, the result of host() on its request, the tuple serialize
\* returned, the object built from that tuple and the result of host() on it.
\* For deferred rendering: the promises registered and the progress of
\* runAppInstance's function.
NewInfo ==
  [ value       |-> << >>,
    text        |-> Undefined,
    parsed      |-> Undefined,
    obj         |-> FastBootInfo(Undefined, RawResponse,
                                 [hostWhitelist |-> Undefined,
                                  metadata |-> Undefined], Undefined),
    hostRes     |-> NotCalled,
    tuple       |-> Undefined,
    rebuilt     |-> Undefined,
    rebuiltHost |-> NotCalled,
    promises    |-> << >>,     \* states of the promises given to deferRendering
    awaited     |-> -1,        \* promises in the chain that runAppInstance
                               \* awaits; -1 before its await
    returned    |-> "no" ]     \* runAppInstance's function: "serialized" when
                               \* it returned the tuple, "threw" when it threw

\* The schema versions the coordinator knows: the one of a manifest that names
\* none, the first whose manifest lists its files, and the supported one.
FastBootSchemaVersions == [base |-> 1, manifestFileArrays |-> 2, latest |-> 3]

\* The package.json of a dist directory: the file is there, its text parses
\* as JSON, the parsed value has a `fastboot` object, that object has a
\* `manifest`, and its schemaVersion (0 when it has none).
Manifests ==
  [ exists : BOOLEAN, parses : BOOLEAN, fastboot : BOOLEAN, manifest : BOOLEAN,
    schemaVersion : 0..(FastBootSchemaVersions.latest + 1) ]

\* A complete package.json of the supported schema version.
ValidManifest ==
  [ exists |-> TRUE, parses |-> TRUE, fastboot |-> TRUE, manifest |-> TRUE,
    schemaVersion |-> FastBootSchemaVersions.latest ]

\* The value of options.distPath: null or undefined, or a path to a directory
\* with that package.json.
Nil == [nil |-> TRUE, file |-> ValidManifest]
Dist(file) == [nil |-> FALSE, file |-> file]
DistPaths == {Nil} \cup {Dist(f) : f \in Manifests}

\* The errors _setOptions throws, by their messages (index.js:183,
\* result.js:257, 269 and 278); "TypeError" is a read or write of a property
\* of undefined, and "none" is no error.
ConfigurationErrors == {"distPath", "notFound", "malformed", "incompatible"}

\* result.js:250-331: what readPackageJSON throws on a package.json.  With a
\* `fastboot` object that has no `manifest`, nothing is thrown inside the
\* second try block; `manifest` is undefined and is written to in
\* transformManifestFiles (line 340) or read at line 299.
readPackageJSON(f) ==
  LET schemaVersion == IF f.schemaVersion # 0 THEN f.schemaVersion
                       ELSE FastBootSchemaVersions.base
  IN IF ~f.exists THEN "notFound"
     ELSE IF ~f.parses \/ ~f.fastboot THEN "malformed"
     ELSE IF schemaVersion > FastBootSchemaVersions.latest THEN "incompatible"
     ELSE IF ~f.manifest THEN "TypeError"
     ELSE "none"

\* The events the constructor puts a listener on (index.js:65-69).
ProcessEvents == {"exit", "SIGINT", "SIGUSR1", "SIGUSR2", "uncaughtException"}

\* The coordinator's standing in its process.
\*   constructed  "no" before `new PowerBoot(options)`, "yes" when it returned
\*                the coordinator, "threw" when it threw
\*   dist         options.distPath of that call
\*   thrown       what the constructor threw
\*   hooks        the events of the process that hold a listener of the
\*                coordinator
\*   reloadThrew  what the last call of reload threw
\*   close        "no" before close(), "awaitBrowser" while it awaits
\*                browser.close(), "done" when it resolved, "rejected"
\*   browserClosed, serverClosed   close() was called on them
\*   off          the process has the method `off` (index.js:161), which
\*                Node.js has from version 10 on; the package declares the
\*                engine node ^8.0.0 (index.js:361-363)
NewProcess ==
  [ constructed   |-> "no",
    off           |-> TRUE,
    dist          |-> Nil,
    thrown        |-> "none",
    hooks         |-> {},
    reloadThrew   |-> "none",
    close         |-> "no",
    browserClosed |-> FALSE,
    serverClosed  |-> FALSE ]

\* index.js:53-70 on a distPath with a complete package.json.
Constructed ==
  [NewProcess EXCEPT !.constructed = "yes", !.dist = Dist(ValidManifest),
                     !.hooks = ProcessEvents]

TypeOK ==
  /\ _instance \in 0..MaxVisits
  /\ isWorking \in BOOLEAN
  /\ _isWorking \in BOOLEAN
  /\ _shouldDestroyInstance \in BOOLEAN
  /\ _appConfig \in 0..MaxReloads
  /\ config \in [sandboxGlobals : 0..MaxReloads, resilient : BOOLEAN,
                 browser : BOOLEAN, distPath : 0..MaxReloads]
  /\ _httpServer \in BOOLEAN
  /\ nApps \in 0..MaxVisits
  /\ nReloads \in 0..MaxReloads
  /\ DOMAIN apps = Apps
  /\ \A i \in Apps :
       /\ apps[i].exists = (i <= nApps)
       /\ apps[i].config \in 0..MaxReloads
       /\ apps[i].sandboxGlobals \in 0..MaxReloads
       /\ apps[i].destroyed \in BOOLEAN
       /\ apps[i]._hasInitialized \in BOOLEAN
       /\ apps[i].hasInitialized \in BOOLEAN
       /\ apps[i].bootCount \in 0..MaxVisits
       /\ apps[i].stored \subseteq StorageKinds
  /\ res.page \in Bodies
  /\ res.dom \in Seq(BodyPieces \cup {BoundaryStart, BoundaryEnd})
  /\ res._head.def \in BOOLEAN
  /\ res._body.def \in BOOLEAN
  /\ res.domRes.called \in BOOLEAN
  /\ res.caught \in PageErrors \cup {NoPageError}
  /\ res.rethrown \in BOOLEAN
  /\ res.statusCode \in StatusCodes
  /\ res.location \in Locations
  /\ res._html.def \in BOOLEAN
  /\ res.finalized \in BOOLEAN
  /\ res.calls \in 0..MaxFinalizeCalls
  /\ res.pending \in 0..MaxFinalizeCalls
  /\ res.cleanups \in 0..MaxFinalizeCalls
  /\ res.rejected \in BOOLEAN
  /\ res.htmlRes.called \in BOOLEAN
  /\ res.chunksRes.called \in BOOLEAN
  /\ res.chunksRes.threw \in BOOLEAN
  /\ DOMAIN visits = Visits
  /\ \A v \in Visits :
       /\ visits[v].pc \in PcValues
       /\ visits[v].direct \in BOOLEAN
       /\ visits[v].optResilient \in {"undef", "true", "false"}
       /\ visits[v].resilient \in BOOLEAN
       /\ visits[v].ms \in {0, DeadlineMs}
       /\ visits[v].disableShoebox \in BOOLEAN
       /\ visits[v].capConfig \in 0..MaxReloads
       /\ visits[v].capSandbox \in 0..MaxReloads
       /\ visits[v].pass \in {0, 1}
       /\ visits[v].instance \in 0..TrueVal
       /\ visits[v].result \in BOOLEAN
       /\ visits[v].error \in Errors
       /\ visits[v].hasInfo \in BOOLEAN
       /\ visits[v].harvested \in BOOLEAN
       /\ visits[v].finalized \in BOOLEAN
       /\ visits[v].captured \in Errors
       /\ visits[v].caught \in Errors
       /\ visits[v].shoebox \in 0..MaxShoeboxKeys
       /\ visits[v].written \in 0..MaxShoeboxKeys
       /\ visits[v].timer \in TimerStates
       /\ visits[v].didDestroy \in BOOLEAN
       /\ visits[v].firedEarly \in BOOLEAN
       /\ visits[v].outcome \in {"none", "resolved", "rejected"}
       /\ visits[v].rejection \in Errors

\* index.js:53-70 with _setOptions: the constructor's options give resilient
\* and, possibly, a browser; distPath was read into _appConfig (version 0).
Init ==
  /\ _instance = 0
  /\ isWorking = FALSE
  /\ _isWorking = FALSE
  /\ _shouldDestroyInstance = FALSE
  /\ _appConfig = 0
  /\ config \in [sandboxGlobals : {0}, resilient : BOOLEAN, browser : BOOLEAN,
                 distPath : {0}]
  /\ _httpServer = FALSE
  /\ apps = [i \in Apps |-> NoApp]
  /\ nApps = 0
  /\ visits = [v \in Visits |-> NewVisit]
  /\ nReloads = 0
  /\ res = NewResult(<< >>, 0, "")
  /\ info = NewInfo
  /\ proc = Constructed

-----------------------------------------------------------------------------
(* PowerBoot: options, release, the acquisition generator *)

\* index.js:93-97: options.resilient when defined, else config.resilient.
EffectiveResilient(opt, configured) ==
  IF opt = "undef" THEN configured ELSE opt = "true"

\* index.js:210-223 for a key with a default: a truthy option is taken, an
\* absent or falsy one leaves the configured value (or the default) in place.
SetOption(present, value, current) ==
  IF present /\ value # 0 THEN value ELSE current

\* index.js:178-199 on the options `o`; `n` numbers the call.  A distPath
\* that is an own property of the options is checked, stored, and read
\* (readPackageJSON), giving manifest version n; present sandboxGlobals are
\* the object numbered n.  threw is what the method throws, and appConfig and
\* config are the fields as it leaves them.
SetOptions(o, n) ==
  LET threw == IF ~o.distPath THEN "none"
               ELSE IF o.dist.nil THEN "distPath"
               ELSE readPackageJSON(o.dist.file)
  IN IF threw = "distPath"
     THEN [threw |-> threw, appConfig |-> _appConfig, config |-> config]
     ELSE IF threw # "none"
     THEN [threw |-> threw, appConfig |-> _appConfig,
           config |-> [config EXCEPT !.distPath = n]]
     ELSE
  [ threw     |-> "none",
    appConfig |-> IF o.distPath THEN n ELSE _appConfig,
    config    |-> [ config EXCEPT
                      !.distPath = IF o.distPath THEN n ELSE @,
                      !.sandboxGlobals = SetOption(o.sandboxGlobals, n, @),
                      !.resilient = (SetOption(o.resilient # "undef",
                                               IF o.resilient = "true" THEN 1 ELSE 0,
                                               IF @ THEN 1 ELSE 0) = 1) ] ]

\* ember-app.js:193-196
Destroy(as, i) == [as EXCEPT ![i].destroyed = TRUE]

\* The pool fields release works on; threw: release raised a TypeError.
PoolState ==
  [ instance |-> _instance,
    working  |-> isWorking,
    mark     |-> _shouldDestroyInstance,
    apps     |-> apps,
    threw    |-> FALSE ]

\* ReleaseInstance without `this._instance = null` (index.js:266).
ReleaseInstanceKeepsSlot(p) ==
  IF p.mark
  THEN IF p.instance = 0
       THEN [p EXCEPT !.threw = TRUE]
       ELSE [p EXCEPT !.apps = Destroy(p.apps, p.instance),
                      !.mark = FALSE,
                      !.working = FALSE]
  ELSE [p EXCEPT !.working = FALSE]

\* index.js:263-270.  With the mark set and the slot empty,
\* `this._instance.destroy()` throws before anything is assigned.
ReleaseInstance(p) ==
  IF p.mark
  THEN IF p.instance = 0
       THEN [p EXCEPT !.threw = TRUE]
       ELSE [p EXCEPT !.apps = Destroy(p.apps, p.instance),
                      !.instance = 0,
                      !.mark = FALSE,
                      !.working = FALSE]
  ELSE [p EXCEPT !.working = FALSE]

SetPool(p) ==
  /\ _instance' = p.instance
  /\ isWorking' = p.working
  /\ _shouldDestroyInstance' = p.mark
  /\ apps' = p.apps

\* index.js:234: the generator's locals, taken when it is first resumed.
StartGenerator(rec) ==
  [rec EXCEPT !.capConfig = _appConfig, !.capSandbox = config.sandboxGlobals]

\* index.js:236-251: what one pass of the generator's loop yields.
GeneratorStep(inst, server, working) ==
  IF inst = 0 /\ server THEN "newPage"
  ELSE IF inst # 0 /\ ~working THEN "true"
  ELSE "tick"

\* The generator's locals are gone once its loop has ended.
EndGenerator(rec) == [rec EXCEPT !.capConfig = 0, !.capSandbox = 0, !.pass = 0]

Settled(rec, how, err) ==
  [rec EXCEPT !.pc = "done", !.outcome = how, !.rejection = err]

\* index.js:116-121 on the value the generator yields.  A page promise is
\* awaited; `true` is awaited, ends the loop as `instance`, and
\* `instance.visit(...)` then throws out of PowerBoot.visit; the setImmediate
\* promise is awaited and gives null, and the loop takes another pass.
Acquire(v, rec, server) ==
  LET y == GeneratorStep(_instance, server, isWorking) IN
  /\ isWorking' = (isWorking \/ y = "true")
  /\ visits' = [visits EXCEPT ![v] =
       CASE y = "newPage" -> [rec EXCEPT !.pc = "awaitPage"]
         [] y = "true"    -> Settled(EndGenerator([rec EXCEPT !.instance = TrueVal]),
                                     "rejected", TypeError)
         [] OTHER         -> [rec EXCEPT !.pc = "tick", !.pass = 1 - @]]
  /\ UNCHANGED << _instance, _shouldDestroyInstance, apps, nApps >>

\* index.js:110-119: the browser check and what follows it.
AfterServer(v, rec, server) ==
  IF config.browser
  THEN Acquire(v, StartGenerator(rec), server)
  ELSE /\ visits' = [visits EXCEPT ![v] = [rec EXCEPT !.pc = "awaitBrowser"]]
       /\ UNCHANGED << pool, apps, nApps >>

VisitOptions ==
  [ resilient : {"undef", "true", "false"},
    destroyAppInstanceInMs : {0, DeadlineMs},
    disableShoebox : BOOLEAN ]

InFlight == {u \in Visits : visits[u].pc \notin {"idle", "done"}}

\* index.js:90-108: a call of visit(path, options).  Calls are numbered in the
\* order they are made; `limit` bounds the calls in flight at once.
VisitStart(v, o, limit) ==
  /\ visits[v].pc = "idle"
  /\ proc.constructed = "yes"
  /\ \A u \in Visits : u < v => visits[u].pc # "idle"
  /\ Cardinality(InFlight) < limit
  /\ LET rec == [visits[v] EXCEPT
                   !.optResilient = o.resilient,
                   !.resilient = EffectiveResilient(o.resilient, config.resilient),
                   !.ms = o.destroyAppInstanceInMs,
                   !.disableShoebox = o.disableShoebox]
     IN IF _httpServer
        THEN AfterServer(v, rec, _httpServer)
        ELSE /\ visits' = [visits EXCEPT ![v] = [rec EXCEPT !.pc = "awaitServer"]]
             /\ UNCHANGED << pool, apps, nApps >>
  /\ UNCHANGED << _isWorking, res, info, proc, _appConfig, config, _httpServer, nReloads >>

\* index.js:105: the listener promise resolved and _httpServer is assigned.
ServerListening(v) ==
  /\ visits[v].pc = "awaitServer"
  /\ _httpServer' = TRUE
  /\ AfterServer(v, visits[v], TRUE)
  /\ UNCHANGED << _isWorking, res, info, proc, _appConfig, config, nReloads >>

\* index.js:112: puppeteer.launch resolved and config.browser is assigned.
BrowserLaunched(v) ==
  /\ visits[v].pc = "awaitBrowser"
  /\ config' = [config EXCEPT !.browser = TRUE]
  /\ Acquire(v, StartGenerator(visits[v]), _httpServer)
  /\ UNCHANGED << _isWorking, res, info, proc, _appConfig, _httpServer, nReloads >>

\* index.js:249-251 and the next pass of the loop.
TickDone(v) ==
  /\ visits[v].pc = "tick"
  /\ Acquire(v, visits[v], _httpServer)
  /\ UNCHANGED << _isWorking, res, info, proc, _appConfig, config, _httpServer, nReloads >>

\* index.js:237-242 and 117-121, ember-app.js:69-95: the page is ready, the
\* EmberApp is built from the generator's locals and stored, the loop ends with
\* it, and its visit builds the Result and starts loading the document.
PageReady(v) ==
  /\ visits[v].pc = "awaitPage"
  /\ nApps' = nApps + 1
  /\ apps' = [apps EXCEPT ![nApps + 1] =
                NewApp(visits[v].capConfig, visits[v].capSandbox)]
  /\ _instance' = nApps + 1
  /\ visits' = [visits EXCEPT ![v] =
                  EndGenerator([@ EXCEPT !.instance = nApps + 1,
                                         !.pc = "setContent"])]
  /\ UNCHANGED << isWorking, _isWorking, res, info, proc, _shouldDestroyInstance, _appConfig,
                  config, _httpServer, nReloads >>

\* The options of reload: distPath tells whether they have a distPath of
\* their own, and dist is its value.
AllReloadOptions ==
  [ distPath : BOOLEAN, dist : DistPaths, sandboxGlobals : BOOLEAN,
    resilient : {"undef", "true", "false"} ]

\* Those that name no distPath or one with a complete package.json.
ReloadOptions ==
  {o \in AllReloadOptions : o.dist = Dist(ValidManifest)}

\* Reload that marks the instance before it sets the options.
ReloadMarksFirst(o, limit) ==
  /\ nReloads < limit
  /\ proc.constructed = "yes"
  /\ nReloads' = nReloads + 1
  /\ LET set == SetOptions(o, nReloads + 1)
         marked == [PoolState EXCEPT !.mark = TRUE]
     IN /\ _appConfig' = set.appConfig
        /\ config' = set.config
        /\ proc' = [proc EXCEPT !.reloadThrew = set.threw]
        /\ IF set.threw # "none" \/ marked.instance = 0 \/ _isWorking
           THEN SetPool(marked)
           ELSE SetPool(ReleaseInstance(marked))
  /\ UNCHANGED << _isWorking, res, info, _httpServer, nApps, visits >>

\* index.js:141-150; `limit` bounds the calls of a run.  When _setOptions
\* throws, the call ends there.
Reload(o, limit) ==
  /\ nReloads < limit
  /\ proc.constructed = "yes"
  /\ nReloads' = nReloads + 1
  /\ LET set == SetOptions(o, nReloads + 1)
         marked == [PoolState EXCEPT !.mark = TRUE]
     IN /\ _appConfig' = set.appConfig
        /\ config' = set.config
        /\ proc' = [proc EXCEPT !.reloadThrew = set.threw]
        /\ IF set.threw # "none"
           THEN UNCHANGED << pool, apps >>
           ELSE IF marked.instance = 0 \/ _isWorking
           THEN SetPool(marked)
           ELSE SetPool(ReleaseInstance(marked))
  /\ UNCHANGED << _isWorking, res, info, _httpServer, nApps, visits >>

-----------------------------------------------------------------------------
(* EmberApp.visit: the steps of one visit and its deadline timer *)

App(v) == apps[visits[v].instance]

\* The forced reload of the visit's page was started: evaluations on the page
\* can be cut with "Execution context was destroyed".
Navigated(rec) == rec.timer \in {"reloading", "fired", "failed"}

\* Evaluations of visit v can be cut by a navigation of its page: the forced
\* reload of its own timer, or one still in progress that the timer of an
\* earlier visit on the same instance started.
Cut(v) ==
  \/ Navigated(visits[v])
  \/ \E u \in Visits \ {v} : /\ visits[u].instance = visits[v].instance
                              /\ visits[u].timer = "reloading"

\* CatchError without `didDestroy &&` (ember-app.js:124).
CatchErrorAnyTime(rec, thrown) ==
  LET isNormalError == thrown.kind \in {"CtxDestroyed", "Disconnected"}
  IN IF isNormalError THEN rec.error ELSE thrown

\* ember-app.js:124-128: the catch of EmberApp.visit on `thrown`.
CatchError(rec, thrown) ==
  LET isNormalError == rec.didDestroy
                       /\ thrown.kind \in {"CtxDestroyed", "Disconnected"}
  IN IF isNormalError THEN rec.error ELSE thrown

\* ClearTimer without clearTimeout (ember-app.js:131 left out).
ClearTimerNever(t) == t

\* ember-app.js:129-133: clearTimeout stops a timer that has not fired.
ClearTimer(t) == IF t = "armed" THEN "cleared" ELSE t

\* index.js:124-128
Inspect(rec) ==
  IF ~rec.resilient /\ rec.error # NoError
  THEN Settled(rec, "rejected", rec.error)
  ELSE Settled(rec, "resolved", NoError)

\* result.js:94-115: what html() does on the result of a settled visit.  It
\* reads this._fastbootInfo.response first, which throws when the result has no
\* info; otherwise it returns this._html, replaced by a string for the status
\* codes 204 and 300..399.
Html(rec) ==
  IF ~rec.hasInfo THEN "throws"
  ELSE IF rec.harvested THEN "string"
  ELSE "undefined"

\* ember-app.js:121-134 and index.js:121-128: EmberApp.visit ends (`thrown` is
\* what its try block threw, NoError if nothing) and returns the result;
\* PowerBoot.visit releases the instance and settles.
\* `as` is the EmberApp objects as the step leaves them.  A caller that called
\* EmberApp.visit directly just gets the result.
ReturnWith(v, rec, thrown, as) ==
  LET r1 == [rec EXCEPT
               !.error = IF thrown = NoError THEN @ ELSE CatchError(rec, thrown),
               !.timer = ClearTimer(@),
               !.captured = NoError,
               !.caught = thrown,
               !.result = TRUE]
      p  == ReleaseInstance([PoolState EXCEPT !.apps = as])
  IN IF rec.direct
     THEN /\ visits' = [visits EXCEPT ![v] = Settled(r1, "resolved", NoError)]
          /\ apps' = as
          /\ UNCHANGED << pool, nApps >>
     ELSE /\ visits' = [visits EXCEPT ![v] =
                          IF p.threw THEN Settled(r1, "rejected", TypeError)
                          ELSE Inspect(r1)]
          /\ SetPool(p)
          /\ UNCHANGED nApps

Return(v, rec, thrown) == ReturnWith(v, rec, thrown, apps)

\* AfterRun that sets no info on the result when runAppInstance threw
\* (ember-app.js:177-178 left out on an error).
AfterRunWithoutInfo(rec, caught, keys) ==
  IF caught # NoError
  THEN [rec EXCEPT !.captured = caught, !.pc = "finalize"]
  ELSE [rec EXCEPT !.captured = caught,
                   !.hasInfo = TRUE,
                   !.shoebox = keys,
                   !.pc = IF ~rec.disableShoebox /\ keys > 0 THEN "shoebox"
                          ELSE "finalize"]

\* ember-app.js:169-183 once runAppInstance is over: `caught` is what it threw,
\* `keys` the own keys of the shoebox it returned (0 when it returned nothing
\* or threw).  The info is set on the result; the shoebox is written, or
\* _finalize is entered.
AfterRun(rec, caught, keys) ==
  [rec EXCEPT !.captured = caught,
              !.hasInfo = TRUE,
              !.shoebox = keys,
              !.pc = IF ~rec.disableShoebox /\ keys > 0 THEN "shoebox"
                     ELSE "finalize"]

\* ember-app.js:95: result.setContent is over.  A page closed meanwhile gives
\* "Target closed", which setContent swallows without harvesting; any other
\* failure rejects EmberApp.visit, so PowerBoot.visit rejects at index.js:121.
\* ember-app.js:97-119 follow: the timer is started and clearPageStorage is
\* called, which throws at once when this.page is null.
SetContentDone(v) ==
  /\ visits[v].pc = "setContent"
  /\ \/ /\ ~App(v).destroyed
        /\ visits' = [visits EXCEPT ![v] =
             [@ EXCEPT !.harvested = TRUE,
                       !.timer = IF @ = "none" /\ visits[v].ms > 0
                                 THEN "armed" ELSE @,
                       !.pc = "clear"]]
        /\ UNCHANGED << pool, apps, nApps >>
     \/ /\ ~App(v).destroyed
        /\ visits' = [visits EXCEPT ![v] = Settled(@, "rejected", RenderError)]
        /\ UNCHANGED << pool, apps, nApps >>
     \/ /\ App(v).destroyed
        /\ Return(v, [visits[v] EXCEPT
                        !.timer = IF visits[v].ms > 0 THEN "armed" ELSE @],
                  TypeError)
  /\ UNCHANGED << _isWorking, res, info, proc, _appConfig, config, _httpServer, nReloads >>

\* RouteStart without `this.hasInitialized = true` (ember-app.js:159).
RouteStartForgets(v, wedge, as) ==
  IF ~App(v).hasInitialized
  THEN /\ apps' = [as EXCEPT ![visits[v].instance] =
                     [@ EXCEPT !.bootCount = @ + 1]]
       /\ visits' = [visits EXCEPT ![v].pc = "boot"]
  ELSE /\ apps' = as
       /\ visits' = [visits EXCEPT ![v].pc = IF wedge THEN "wedged" ELSE "run"]

\* ember-app.js:157-159 and 173: _visitRoute starts the boot injection on an
\* instance it does not hold initialized, and otherwise runs the application,
\* whose visit completes on its own (run) or never does (wedged).
RouteStart(v, wedge, as) ==
  IF ~App(v).hasInitialized
  THEN /\ apps' = [as EXCEPT ![visits[v].instance] =
                     [@ EXCEPT !.hasInitialized = TRUE,
                               !.bootCount = @ + 1]]
       /\ visits' = [visits EXCEPT ![v].pc = "boot"]
  ELSE /\ apps' = as
       /\ visits' = [visits EXCEPT ![v].pc = IF wedge THEN "wedged" ELSE "run"]

\* ember-app.js:363-372 on the kinds of storage that hold data.  localStorage
\* and sessionStorage are cleared; `document.cookie = ''` removes no cookie;
\* with a database present, `databases[database]` is indexed by the database
\* object and is undefined, so reading `.name` throws before any is deleted.
ClearPageStorage(stored) ==
  [ stored |-> stored \ {"local", "session"},
    threw  |-> "idb" \in stored ]

\* ember-app.js:119-120 and 363-372: clearPageStorage is over.  It evaluates on
\* the page directly, so every failure, "Target closed" too, reaches the catch.
ClearDone(v) ==
  /\ visits[v].pc = "clear"
  /\ \/ /\ ~App(v).destroyed
        /\ LET c  == ClearPageStorage(App(v).stored)
               as == [apps EXCEPT ![visits[v].instance].stored = c.stored]
           IN IF c.threw
              THEN ReturnWith(v, visits[v], TypeError, as)
              ELSE /\ \E wedge \in BOOLEAN : RouteStart(v, wedge, as)
                   /\ UNCHANGED << pool, nApps >>
     \/ /\ ~App(v).destroyed
        /\ Return(v, visits[v], RenderError)
     \/ /\ ~App(v).destroyed /\ Cut(v)
        /\ Return(v, visits[v], CtxDestroyed)
     \/ /\ App(v).destroyed
        /\ Return(v, visits[v], TargetClosed)
  /\ UNCHANGED << _isWorking, res, info, proc, _appConfig, config, _httpServer, nReloads >>

\* ember-app.js:160-168 and 173: the boot injection is over.  Its evaluations go
\* through result.evaluate, which swallows "Target closed"; any other failure
\* leaves _visitRoute.
BootDone(v) ==
  /\ visits[v].pc = "boot"
  /\ \/ /\ ~App(v).destroyed
        /\ \E wedge \in BOOLEAN :
             visits' = [visits EXCEPT ![v].pc = IF wedge THEN "wedged" ELSE "run"]
        /\ UNCHANGED << pool, apps, nApps >>
     \/ /\ App(v).destroyed
        /\ visits' = [visits EXCEPT ![v].pc = "run"]
        /\ UNCHANGED << pool, apps, nApps >>
     \/ /\ ~App(v).destroyed
        /\ Return(v, visits[v], RenderError)
     \/ /\ ~App(v).destroyed /\ Cut(v)
        /\ Return(v, visits[v], CtxDestroyed)
  /\ UNCHANGED << _isWorking, res, info, proc, _appConfig, config, _httpServer, nReloads >>

\* ember-app.js:169-182 and 345-361: runAppInstance is over.  It returns the
\* serialized info, or nothing when the page was closed ("Target closed"
\* swallowed), or throws; a wedged visit ends only by the page being closed or
\* navigated away.
RunDone(v) ==
  /\ visits[v].pc \in {"run", "wedged"}
  /\ \/ /\ ~App(v).destroyed /\ visits[v].pc = "run"
        /\ \E keys \in 0..MaxShoeboxKeys :
             visits' = [visits EXCEPT ![v] = AfterRun(@, NoError, keys)]
     \/ /\ ~App(v).destroyed /\ visits[v].pc = "run"
        /\ visits' = [visits EXCEPT ![v] = AfterRun(@, RenderError, 0)]
     \/ /\ ~App(v).destroyed /\ Cut(v)
        /\ visits' = [visits EXCEPT ![v] = AfterRun(@, CtxDestroyed, 0)]
     \/ /\ App(v).destroyed
        /\ visits' = [visits EXCEPT ![v] = AfterRun(@, NoError, 0)]
  /\ UNCHANGED << pool, apps, nApps, _isWorking, res, info, proc, _appConfig, config,
                  _httpServer, nReloads >>

\* ember-app.js:179-183 and 253-268: createShoebox is over.  A failure of one of
\* its evaluations leaves _visitRoute before _finalize.
ShoeboxDone(v) ==
  /\ visits[v].pc = "shoebox"
  /\ \/ /\ ~App(v).destroyed
        /\ visits' = [visits EXCEPT ![v] =
             [@ EXCEPT !.written = visits[v].shoebox, !.pc = "finalize"]]
        /\ UNCHANGED << pool, apps, nApps >>
     \/ /\ App(v).destroyed
        /\ visits' = [visits EXCEPT ![v].pc = "finalize"]
        /\ UNCHANGED << pool, apps, nApps >>
     \/ /\ ~App(v).destroyed
        /\ Return(v, visits[v], RenderError)
     \/ /\ ~App(v).destroyed /\ Cut(v)
        /\ Return(v, visits[v], CtxDestroyed)
  /\ UNCHANGED << _isWorking, res, info, proc, _appConfig, config, _httpServer, nReloads >>

\* ember-app.js:183-184 and result.js:176-197: _finalize is over; the error
\* captured from runAppInstance is then thrown out of _visitRoute.
FinalizeDone(v) ==
  /\ visits[v].pc = "finalize"
  /\ \/ Return(v, [visits[v] EXCEPT !.finalized = TRUE], visits[v].captured)
     \/ /\ ~App(v).destroyed
        /\ Return(v, visits[v], RenderError)
     \/ /\ ~App(v).destroyed /\ Cut(v)
        /\ Return(v, visits[v], CtxDestroyed)
  /\ UNCHANGED << _isWorking, res, info, proc, _appConfig, config, _httpServer, nReloads >>

\* ember-app.js:102-105 and 107-114: the timer fires during the visit and the
\* page's reload is started; with this.page null the call throws at once, the
\* catch records the TypeError and the handler ends.
TimerFire(v) ==
  /\ visits[v].timer = "armed"
  /\ IF App(v).destroyed
     THEN /\ visits' = [visits EXCEPT ![v] =
               [@ EXCEPT !.didDestroy = TRUE, !.firedEarly = visits[v].pc \in BeforeRunReturn,
                         !.error = TypeError, !.timer = "failed"]]
          /\ apps' = [apps EXCEPT ![visits[v].instance]._hasInitialized = FALSE]
     ELSE /\ visits' = [visits EXCEPT ![v] =
               [@ EXCEPT !.didDestroy = TRUE, !.firedEarly = visits[v].pc \in BeforeRunReturn,
                         !.timer = "reloading"]]
          /\ apps' = apps
  /\ UNCHANGED << pool, nApps, _isWorking, res, info, proc, _appConfig, config, _httpServer,
                  nReloads >>

\* ember-app.js:105-114: the reload is over.  On success the deadline error is
\* put on the result; a failure is put on the result unless it is the browser's
\* disconnection; the instance's _hasInitialized is reset either way.
ReloadDone(v) ==
  /\ visits[v].timer = "reloading"
  /\ \/ /\ ~App(v).destroyed
        /\ visits' = [visits EXCEPT ![v] =
             [@ EXCEPT !.error = DeadlineError(visits[v].ms), !.timer = "fired"]]
     \/ /\ App(v).destroyed
        /\ visits' = [visits EXCEPT ![v] =
             [@ EXCEPT !.error = TargetClosed, !.timer = "failed"]]
     \/ visits' = [visits EXCEPT ![v].timer = "failed"]
  /\ apps' = [apps EXCEPT ![visits[v].instance]._hasInitialized = FALSE]
  /\ UNCHANGED << pool, nApps, _isWorking, res, info, proc, _appConfig, config, _httpServer,
                  nReloads >>

-----------------------------------------------------------------------------

\* The steps of the acquisition: index.js:105-119 and 233-253.
AcquireStep(v) ==
  \/ ServerListening(v)
  \/ BrowserLaunched(v)
  \/ PageReady(v)

\* The steps of EmberApp.visit, the deadline timer apart.
RenderStep(v) ==
  \/ SetContentDone(v)
  \/ ClearDone(v)
  \/ BootDone(v)
  \/ RunDone(v)
  \/ ShoeboxDone(v)
  \/ FinalizeDone(v)

TimerStep(v) == TimerFire(v) \/ ReloadDone(v)

\* Runs that vary every option of visit and reload.  Fewer than three calls of
\* visit never reach the generator's retry (index.js:249-251): isWorking is
\* set by a second call only, and a third one finds it set.
Next ==
  \/ \E v \in DetailedVisits : \E o \in VisitOptions : VisitStart(v, o, MaxDetailedVisits)
  \/ \E v \in DetailedVisits : AcquireStep(v)
  \/ \E v \in DetailedVisits : RenderStep(v)
  \/ \E v \in DetailedVisits : TimerStep(v)
  \/ \E o \in ReloadOptions : Reload(o, MaxReloads)

Spec == Init /\ [][Next]_vars

\* Visits called with no option.
PlainVisitOptions ==
  {o \in VisitOptions : /\ o.resilient = "undef"
                        /\ o.destroyAppInstanceInMs = 0
                        /\ ~o.disableShoebox}

\* reload({distPath}), as the tests call it.
PlainReloadOptions ==
  {o \in ReloadOptions : o.distPath /\ ~o.sandboxGlobals /\ o.resilient = "undef"}

\* A coordinator built with a browser and without resilient.
InitPool == Init /\ config.browser /\ ~config.resilient

\* Runs of several plain visits and reloads: the pool.
NextPool ==
  \/ \E v \in Visits : \E o \in PlainVisitOptions : VisitStart(v, o, MaxVisits)
  \/ \E v \in Visits : ServerListening(v)
  \/ \E v \in Visits : PageReady(v)
  \/ \E v \in Visits : TickDone(v)
  \/ \E v \in Visits : RenderStep(v)
  \/ \E o \in PlainReloadOptions : Reload(o, MaxPoolReloads)

SpecPool == InitPool /\ [][NextPool]_vars

\* Visits called with a deadline only.
DeadlineVisitOptions ==
  {o \in VisitOptions : /\ o.resilient = "undef"
                        /\ o.destroyAppInstanceInMs = DeadlineMs
                        /\ ~o.disableShoebox}

\* Runs of several visits with a deadline, and no reload.
NextDeadline ==
  \/ \E v \in Visits : \E o \in DeadlineVisitOptions : VisitStart(v, o, MaxInFlight)
  \/ \E v \in Visits : ServerListening(v)
  \/ \E v \in Visits : PageReady(v)
  \/ \E v \in Visits : TickDone(v)
  \/ \E v \in Visits : RenderStep(v)
  \/ \E v \in Visits : TimerStep(v)

\* The event loop runs every task that is ready: a settled promise resumes
\* its await, a due timer fires, setImmediate callbacks run.  Calls of visit
\* are the embedding program's and carry no fairness.
Fairness ==
  \A v \in Visits :
    /\ WF_vars(ServerListening(v))
    /\ WF_vars(PageReady(v))
    /\ WF_vars(TickDone(v))
    /\ WF_vars(RenderStep(v))
    /\ WF_vars(TimerStep(v))

FairSpec == InitPool /\ [][NextDeadline]_vars /\ Fairness

-----------------------------------------------------------------------------
(* One EmberApp driven directly: visits called on it one after the other *)

AppVisits == 1..MaxAppVisits

\* ember-app.js:69-95: a call of visit(path, options) on the EmberApp numbered
\* 1, by a caller other than PowerBoot.visit; the Result is built and loading
\* the document starts.
AppVisit(v, o, limit) ==
  /\ visits[v].pc = "idle"
  /\ \A u \in Visits : u < v => visits[u].pc # "idle"
  /\ Cardinality(InFlight) < limit
  /\ apps[1].exists /\ ~apps[1].destroyed
  /\ visits' = [visits EXCEPT ![v] =
                  [@ EXCEPT !.direct = TRUE,
                            !.instance = 1,
                            !.ms = o.destroyAppInstanceInMs,
                            !.disableShoebox = o.disableShoebox,
                            !.pc = "setContent"]]
  /\ UNCHANGED << pool, apps, nApps, _isWorking, res, info, proc, _appConfig, config,
                  _httpServer, nReloads >>

\* ember-app.js:345-361: the application, while it runs in the page for visit
\* v, puts data in storage of kind k.
AppStores(v, k) ==
  /\ visits[v].pc = "run"
  /\ ~App(v).destroyed
  /\ k \notin App(v).stored
  /\ apps' = [apps EXCEPT ![visits[v].instance].stored = @ \cup {k}]
  /\ UNCHANGED << pool, nApps, visits, _isWorking, res, info, proc, _appConfig, config,
                  _httpServer, nReloads >>

\* Visits with or without a deadline, other options absent.
AppVisitOptions ==
  {o \in VisitOptions : o.resilient = "undef" /\ ~o.disableShoebox}

\* ember-app.js:31-45: an EmberApp was constructed on a page.
InitApp ==
  /\ _instance = 0
  /\ isWorking = FALSE
  /\ _isWorking = FALSE
  /\ _shouldDestroyInstance = FALSE
  /\ _appConfig = 0
  /\ config = [sandboxGlobals |-> 0, resilient |-> FALSE, browser |-> TRUE,
               distPath |-> 0]
  /\ _httpServer = TRUE
  /\ apps = [i \in Apps |-> IF i = 1 THEN NewApp(0, 0) ELSE NoApp]
  /\ nApps = 1
  /\ visits = [v \in Visits |-> NewVisit]
  /\ nReloads = 0
  /\ res = NewResult(<< >>, 0, "")
  /\ info = NewInfo
  /\ proc = Constructed

NextApp ==
  \/ \E v \in AppVisits : \E o \in AppVisitOptions : AppVisit(v, o, MaxInFlight)
  \/ \E v \in AppVisits : \E k \in StorageKinds : AppStores(v, k)
  \/ \E v \in AppVisits : RenderStep(v)
  \/ \E v \in AppVisits : TimerStep(v)

SpecApp == InitApp /\ [][NextApp]_vars

-----------------------------------------------------------------------------
(* A Result used on its own, as test/result-test.js does *)

\* element.remove() on the result of getElementById (result.js:71-74): the
\* first child equal to el leaves the body, if there is one.
RemoveById(body, el) ==
  LET I == {i \in 1..Len(body) : body[i] = el}
  IN IF I = {} THEN body
     ELSE LET i == CHOOSE k \in I : \A j \in I : k <= j
          IN SubSeq(body, 1, i - 1) \o SubSeq(body, i + 1, Len(body))

IsSrcScript(el) == el \in SrcScripts
NotSrcScript(el) == el \notin SrcScripts

\* Reflect that does not remove the boundary scripts it finds
\* (result.js:71-74 left out).
ReflectKeepsMarkers(body) ==
  LET marked == << BoundaryStart >> \o body \o << BoundaryEnd >>
  IN SelectSeq(marked, NotSrcScript) \o SelectSeq(marked, IsSrcScript)

\* result.js:70-78, the function evaluated in the page: the children of the
\* body once the old boundary scripts were removed, the new ones inserted
\* first and last, and every `body > script[src]` appended again in order.
Reflect(body) ==
  LET cleared == RemoveById(RemoveById(body, BoundaryStart), BoundaryEnd)
      marked  == << BoundaryStart >> \o cleared \o << BoundaryEnd >>
  IN SelectSeq(marked, NotSrcScript) \o SelectSeq(marked, IsSrcScript)

\* result.js:79: document.querySelector('html').outerHTML
OuterHTML(body) ==
  << "<html><head>", HeadEnd, "<body>" >> \o body \o << "</body></html>" >>

\* result.js:69-86: the document _reflectContents stores in _html when the
\* body of the page's document has these children.
_reflectContents(body) == OuterHTML(Reflect(body))

\* result.js:83-85: the three fields set by a harvest of the page, whose body
\* has the children `body` when the harvest starts.
Harvest(r, body) ==
  [r EXCEPT !.dom    = Reflect(body),
            !._html  = Str(_reflectContents(body)),
            !._head  = Str(<< >>),
            !._body  = Str(Reflect(body)),
            !.domRes = [called |-> FALSE, head |-> Undefined,
                        body |-> Undefined]]

\* fastboot-request.js:91-93: FastbootResponse.statusCode
StatusCode(raw) == IF raw = 0 THEN 200 ELSE raw

\* result.js:105
PlaceholderDoc ==
  << "<html><head>", HeadEnd, "<body><!-- EMBER_CLI_FASTBOOT_BODY --></body></html>" >>

\* result.js:110
RedirectDoc(location) ==
  << "<html><head>", HeadEnd, "<body><h1>Redirecting to <a href=\"", location,
     "\">", location, "</a></h1></body></html>" >>

\* html with `statusCode > 300` for `statusCode >= 300` (result.js:102).
htmlAbove300(r) ==
  LET statusCode == StatusCode(r.statusCode) IN
  IF statusCode = 204 THEN Str(<< >>)
  ELSE IF statusCode > 300 /\ statusCode <= 399
       THEN IF r.location # "" THEN Str(RedirectDoc(r.location))
            ELSE Str(PlaceholderDoc)
       ELSE r._html

\* result.js:94-115 on a Result that has its info: the value html() stores in
\* _html and returns.
html(r) ==
  LET statusCode == StatusCode(r.statusCode) IN
  IF statusCode = 204 THEN Str(<< >>)
  ELSE IF statusCode >= 300 /\ statusCode <= 399
       THEN IF r.location # "" THEN Str(RedirectDoc(r.location))
            ELSE Str(PlaceholderDoc)
       ELSE r._html

\* result.js:98-107: the value html() leaves in _head and in _body.
htmlInner(r, inner) ==
  LET statusCode == StatusCode(r.statusCode) IN
  IF statusCode = 204 \/ (statusCode >= 300 /\ statusCode <= 399)
  THEN Str(<< >>)
  ELSE inner

\* HTML_HEAD_REGEX (result.js:4) is greedy: its first group ends with the last
\* "</head>" of the string.  0 when the string has none.
LastHeadEnd(s) ==
  LET I == {i \in 1..Len(s) : s[i] = HeadEnd}
  IN IF I = {} THEN 0 ELSE CHOOSE i \in I : \A j \in I : j <= i

\* result.js:143: body.split(SHOEBOX_TAG_PATTERN)
RECURSIVE Split(_)
Split(s) ==
  LET I == {i \in 1..Len(s) : s[i] = SHOEBOX_TAG_PATTERN}
  IN IF I = {} THEN << s >>
     ELSE LET i == CHOOSE k \in I : \A j \in I : k <= j
          IN << SubSeq(s, 1, i - 1) >> \o Split(SubSeq(s, i + 1, Len(s)))

\* chunks pushing `shoebox` for `${SHOEBOX_TAG_PATTERN}${shoebox}` (result.js:150).
chunksWithoutPattern(cached) ==
  IF ~cached.def THEN [threw |-> TRUE, chunks |-> << >>]
  ELSE LET doc == cached.s
           k   == LastHeadEnd(doc)
       IN IF k = 0 THEN [threw |-> FALSE, chunks |-> << doc >>]
          ELSE LET head == SubSeq(doc, 1, k)
                   body == SubSeq(doc, k + 1, Len(doc))
                   bodyParts == Split(body)
               IN IF body = << >> THEN [threw |-> TRUE, chunks |-> << >>]
                  ELSE [threw  |-> FALSE,
                        chunks |-> << head, bodyParts[1] >> \o
                                   [i \in 1..(Len(bodyParts) - 1) |->
                                      bodyParts[i + 1]]]

\* result.js:128-154 on the cached _html.  `html.match` throws on undefined,
\* and the method throws when the text after the last "</head>" is empty.
chunks(cached) ==
  IF ~cached.def THEN [threw |-> TRUE, chunks |-> << >>]
  ELSE LET doc == cached.s
           k   == LastHeadEnd(doc)
       IN IF k = 0 THEN [threw |-> FALSE, chunks |-> << doc >>]
          ELSE LET head == SubSeq(doc, 1, k)
                   body == SubSeq(doc, k + 1, Len(doc))
                   bodyParts == Split(body)
               IN IF body = << >> THEN [threw |-> TRUE, chunks |-> << >>]
                  ELSE [threw  |-> FALSE,
                        chunks |-> << head, bodyParts[1] >> \o
                                   [i \in 1..(Len(bodyParts) - 1) |->
                                      << SHOEBOX_TAG_PATTERN >> \o bodyParts[i + 1]]]

coordinator == << _instance, isWorking, _isWorking, _shouldDestroyInstance,
                  _appConfig, config, _httpServer, apps, nApps, visits,
                  nReloads, proc >>

\* The objects an action on the Result leaves alone.
others == << coordinator, info >>

\* /(Target|Session) closed\./ (result.js:218)
ClosedRegex(s) ==
  \E i \in 1..Len(s) : s[i] \in {"Target closed.", "Session closed."}

\* result.js:213-220, for a callback that throws err: TRUE when err is thrown
\* again, FALSE when the call resolves with undefined.
tryWithPageAwareness(err) ==
  /\ err.message.def /\ err.message.s # << >>
  /\ ~ClosedRegex(err.message.s)

\* result.js:46-52: setContent loads the document and harvests it.
\* The page throws e, or nothing, in the first call it gets.
ResultSetContent(e) ==
  /\ res' = IF e.thrown
            THEN [res EXCEPT !.caught = e, !.rethrown = tryWithPageAwareness(e)]
            ELSE [Harvest(res, res.page) EXCEPT !.caught = e,
                                                !.rethrown = FALSE]
  /\ UNCHANGED others

\* result.js:60-67: evaluate runs a function that leaves the document as it
\* is and harvests the page.  The page throws e, or nothing, in the first call
\* it gets.
ResultEvaluate(e) ==
  /\ res' = IF e.thrown
            THEN [res EXCEPT !.caught = e, !.rethrown = tryWithPageAwareness(e)]
            ELSE [Harvest(res, res.dom) EXCEPT !.caught = e,
                                               !.rethrown = FALSE]
  /\ UNCHANGED others

\* result.js:161-166
domContents(r) == [head |-> r._head, body |-> r._body]

\* result.js:161-166: a call of domContents; its result is kept until the next
\* harvest.
ResultDomContents ==
  /\ res' = [res EXCEPT !.domRes = [called |-> TRUE,
                                    head |-> domContents(res).head,
                                    body |-> domContents(res).body]]
  /\ UNCHANGED others

\* result.js:94-115
ResultHtml ==
  /\ res' = [res EXCEPT !._html = html(res),
                        !._head = htmlInner(res, res._head),
                        !._body = htmlInner(res, res._body),
                        !.htmlRes = [called |-> TRUE, cached |-> res._html,
                                     out |-> html(res)]]
  /\ UNCHANGED others

\* result.js:128-154
ResultChunks ==
  /\ LET c == chunks(res._html)
     IN res' = [res EXCEPT !.chunksRes = [called |-> TRUE, cached |-> res._html,
                                          threw |-> c.threw, chunks |-> c.chunks]]
  /\ UNCHANGED others

\* result.js:176-193: a call of _finalize up to its await.  It throws when
\* finalized is set, and starts the cleanup evaluation otherwise.
ResultFinalize ==
  /\ res.calls < MaxFinalizeCalls
  /\ res' = IF res.finalized
            THEN [res EXCEPT !.calls = @ + 1, !.rejected = TRUE]
            ELSE [res EXCEPT !.calls = @ + 1, !.rejected = FALSE,
                             !.cleanups = @ + 1, !.pending = @ + 1]
  /\ UNCHANGED others

\* result.js:60-67 and 188-196: the cleanup evaluation of a call is over.  It
\* succeeded and the document was harvested again, or the page was closed and
\* the failure swallowed: finalized is set.  Any other failure leaves _finalize.
ResultFinalizeEnd ==
  /\ res.pending > 0
  /\ \/ res' = [Harvest(res, res.dom) EXCEPT !.pending = @ - 1,
                                              !.finalized = TRUE]
     \/ res' = [res EXCEPT !.pending = @ - 1, !.finalized = TRUE]
     \/ res' = [res EXCEPT !.pending = @ - 1]
  /\ UNCHANGED others

\* result.js:11-16: a Result built on a page, for every document body, status
\* code and location header of the bounds.
InitResult ==
  /\ _instance = 0
  /\ isWorking = FALSE
  /\ _isWorking = FALSE
  /\ _shouldDestroyInstance = FALSE
  /\ _appConfig = 0
  /\ config = [sandboxGlobals |-> 0, resilient |-> FALSE, browser |-> TRUE,
               distPath |-> 0]
  /\ _httpServer = FALSE
  /\ apps = [i \in Apps |-> NoApp]
  /\ nApps = 0
  /\ visits = [v \in Visits |-> NewVisit]
  /\ nReloads = 0
  /\ res \in {NewResult(b, st, loc) : b \in PlainBodies, st \in StatusCodes,
                                      loc \in Locations}
  /\ info = NewInfo
  /\ proc = Constructed

NextResult ==
  \/ ResultSetContent(NoPageError)
  \/ ResultEvaluate(NoPageError)
  \/ ResultDomContents
  \/ ResultHtml
  \/ ResultChunks
  \/ ResultFinalize
  \/ ResultFinalizeEnd

SpecResult == InitResult /\ [][NextResult]_vars

\* result.js:46-67: a Result on a page whose calls can fail.
InitPage ==
  /\ _instance = 0
  /\ isWorking = FALSE
  /\ _isWorking = FALSE
  /\ _shouldDestroyInstance = FALSE
  /\ _appConfig = 0
  /\ config = [sandboxGlobals |-> 0, resilient |-> FALSE, browser |-> TRUE,
               distPath |-> 0]
  /\ _httpServer = FALSE
  /\ apps = [i \in Apps |-> NoApp]
  /\ nApps = 0
  /\ visits = [v \in Visits |-> NewVisit]
  /\ nReloads = 0
  /\ res \in {NewResult(b, 0, "") : b \in Bodies}
  /\ info = NewInfo
  /\ proc = Constructed

NextPage ==
  \/ \E e \in PageErrors \cup {NoPageError} : ResultSetContent(e)
  \/ \E e \in PageErrors \cup {NoPageError} : ResultEvaluate(e)

SpecPage == InitPage /\ [][NextPage]_vars

-----------------------------------------------------------------------------
(* The text of a shoebox value: JSON.stringify, escapeJSONString, JSON.parse *)

\* Characters, one string each.  The two line separators are named by their
\* code points.
Quote == "\""
Backslash == "\\"
LineSep == "U+2028"
ParaSep == "U+2029"

\* The characters of the values put in a shoebox.
Chars == {"a", "u", "&", "<", ">", LineSep, ParaSep, Quote, Backslash}

\* Length of the string value of a shoebox key.
MaxValueLen == 2

Values == UNION {[1..n -> Chars] : n \in 0..MaxValueLen}

\* The UTF-16 code unit of a character, as four hexadecimal digits.
CodeUnit ==
  [c \in Chars |->
     CASE c = "a"       -> << "0", "0", "6", "1" >>
       [] c = "u"       -> << "0", "0", "7", "5" >>
       [] c = "&"       -> << "0", "0", "2", "6" >>
       [] c = "<"       -> << "0", "0", "3", "c" >>
       [] c = ">"       -> << "0", "0", "3", "e" >>
       [] c = LineSep   -> << "2", "0", "2", "8" >>
       [] c = ParaSep   -> << "2", "0", "2", "9" >>
       [] c = Quote     -> << "0", "0", "2", "2" >>
       [] c = Backslash -> << "0", "0", "5", "c" >>]

\* ember-app.js:260: JSON.stringify of the characters of a string value.  The
\* quote and the backslash get a backslash; the other characters of Chars are
\* written as they are.
RECURSIVE QuoteChars(_)
QuoteChars(s) ==
  IF s = << >> THEN << >>
  ELSE (IF Head(s) \in {Quote, Backslash} THEN << Backslash, Head(s) >>
        ELSE << Head(s) >>) \o QuoteChars(Tail(s))

\* ember-app.js:260: JSON.stringify(value) for a string value.
JSONstringify(value) == << Quote >> \o QuoteChars(value) \o << Quote >>

\* ember-app.js:270-276
JSON_ESCAPE ==
  [c \in {"&", ">", "<", LineSep, ParaSep} |->
     CASE c = "&"     -> << Backslash, "u", "0", "0", "2", "6" >>
       [] c = ">"     -> << Backslash, "u", "0", "0", "3", "e" >>
       [] c = "<"     -> << Backslash, "u", "0", "0", "3", "c" >>
       [] c = LineSep -> << Backslash, "u", "2", "0", "2", "8" >>
       [] c = ParaSep -> << Backslash, "u", "2", "0", "2", "9" >>]

\* ember-app.js:278: the characters JSON_ESCAPE_REGEXP matches
JSON_ESCAPE_REGEXP == {LineSep, ParaSep, "&", ">", "<"}

\* escapeJSONString with /[\u2028\u2029><]/g for JSON_ESCAPE_REGEXP
\* (ember-app.js:278): the ampersand is left as it is.
RECURSIVE escapeWithoutAmpersand(_)
escapeWithoutAmpersand(string) ==
  IF string = << >> THEN << >>
  ELSE (IF Head(string) \in JSON_ESCAPE_REGEXP \ {"&"}
        THEN JSON_ESCAPE[Head(string)]
        ELSE << Head(string) >>) \o escapeWithoutAmpersand(Tail(string))

\* ember-app.js:287-291
RECURSIVE escapeJSONString(_)
escapeJSONString(string) ==
  IF string = << >> THEN << >>
  ELSE (IF Head(string) \in JSON_ESCAPE_REGEXP
        THEN JSON_ESCAPE[Head(string)]
        ELSE << Head(string) >>) \o escapeJSONString(Tail(string))

\* What stands for a text that JSON.parse rejects.
SyntaxError == "SyntaxError"

\* JSON.parse on the characters inside the quotes of a string literal: \" and
\* \\ give the character, \uXXXX the character of that code unit, any other
\* character itself.
RECURSIVE Unquote(_)
Unquote(s) ==
  IF s = << >> THEN << >>
  ELSE IF Head(s) = Quote THEN << SyntaxError >>
  ELSE IF Head(s) # Backslash THEN << Head(s) >> \o Unquote(Tail(s))
  ELSE IF Len(s) >= 2 /\ s[2] \in {Quote, Backslash}
       THEN << s[2] >> \o Unquote(SubSeq(s, 3, Len(s)))
  ELSE IF Len(s) >= 6 /\ s[2] = "u"
          /\ \E c \in Chars : CodeUnit[c] = SubSeq(s, 3, 6)
       THEN << CHOOSE c \in Chars : CodeUnit[c] = SubSeq(s, 3, 6) >>
              \o Unquote(SubSeq(s, 7, Len(s)))
  ELSE << SyntaxError >>

\* JSON.parse of the text of a string literal, as the browser's application
\* reads the shoebox script.
JSONparse(text) ==
  IF Len(text) < 2 \/ text[1] # Quote \/ text[Len(text)] # Quote
  THEN << SyntaxError >>
  ELSE Unquote(SubSeq(text, 2, Len(text) - 1))

\* ember-app.js:259-261: createShoebox makes the text of the value of a key.
ShoeboxText ==
  /\ ~info.text.def
  /\ info' = [info EXCEPT !.text = Str(escapeJSONString(JSONstringify(info.value)))]
  /\ UNCHANGED << coordinator, res >>

\* The browser's application parses the text of the shoebox script.
ShoeboxParse ==
  /\ info.text.def
  /\ ~info.parsed.def
  /\ info' = [info EXCEPT !.parsed = Str(JSONparse(info.text.s))]
  /\ UNCHANGED << coordinator, res >>

\* ember-app.js:253-259: a shoebox whose key holds any string value of the
\* bound.
InitShoebox ==
  /\ _instance = 0
  /\ isWorking = FALSE
  /\ _isWorking = FALSE
  /\ _shouldDestroyInstance = FALSE
  /\ _appConfig = 0
  /\ config = [sandboxGlobals |-> 0, resilient |-> FALSE, browser |-> TRUE,
               distPath |-> 0]
  /\ _httpServer = FALSE
  /\ apps = [i \in Apps |-> NoApp]
  /\ nApps = 0
  /\ visits = [v \in Visits |-> NewVisit]
  /\ nReloads = 0
  /\ res = NewResult(<< >>, 0, "")
  /\ info \in {[NewInfo EXCEPT !.value = v] : v \in Values}
  /\ proc = Constructed

NextShoebox ==
  \/ ShoeboxText
  \/ ShoeboxParse

SpecShoebox == InitShoebox /\ [][NextShoebox]_vars

-----------------------------------------------------------------------------
(* A FastBootInfo used on its own: host(), serialize and the constructor *)

\* fastboot-request.js:61-72
RequestSerialize(req) ==
  [ hostWhitelist |-> req.hostWhitelist,
    protocol      |-> req.protocol,
    headers       |-> HeadersSerialize(req.headers),
    query         |-> req.queryParams,
    url           |-> req.path,
    method        |-> req.method,
    body          |-> req.body,
    cookies       |-> Some(req.cookies) ]

\* fastboot-request.js:98-103
ResponseSerialize(response) ==
  [ headers    |-> response.headers,
    statusCode |-> StatusCode(response._response.statusCode) ]

\* serialize with an empty object in its third slot (index.js:331-334).
serializeWithoutOptions(obj) ==
  << IF obj.request.def THEN Some(RequestSerialize(obj.request.s)) ELSE Undefined,
     Some(ResponseSerialize(obj.response)),
     [hostWhitelist |-> Undefined, metadata |-> Undefined],
     obj.shoebox >>

\* index.js:327-337
serialize(obj) ==
  << IF obj.request.def THEN Some(RequestSerialize(obj.request.s)) ELSE Undefined,
     Some(ResponseSerialize(obj.response)),
     [hostWhitelist |-> IF obj.request.def THEN obj.request.s.hostWhitelist
                        ELSE Undefined,
      metadata      |-> obj.metadata],
     obj.shoebox >>

\* fastboot-request.js:22-42: host() is called on the request of the info.
InfoHost ==
  /\ info.obj.request.def
  /\ ~info.hostRes.called
  /\ info' = [info EXCEPT !.hostRes =
                [called |-> TRUE, threw |-> host(info.obj.request.s).threw,
                 out |-> host(info.obj.request.s).out]]
  /\ UNCHANGED << coordinator, res >>

\* index.js:327-337, as ember-app.js:359-360 call it
InfoSerialize ==
  /\ ~info.tuple.def
  /\ info' = [info EXCEPT !.tuple = Some(serialize(info.obj))]
  /\ UNCHANGED << coordinator, res >>

\* ember-app.js:176 and 347: new FastBootInfo(...tuple); `response || {}` of
\* the constructor has the second slot, which serialize always fills.
InfoReconstruct ==
  /\ info.tuple.def
  /\ ~info.rebuilt.def
  /\ LET t == info.tuple.s
     IN info' = [info EXCEPT !.rebuilt =
                   Some(FastBootInfo(t[1], t[2].s, t[3], t[4]))]
  /\ UNCHANGED << coordinator, res >>

\* fastboot-request.js:22-42: host() is called on the request of the info
\* built from the tuple.
InfoRebuiltHost ==
  /\ info.rebuilt.def
  /\ info.rebuilt.s.request.def
  /\ ~info.rebuiltHost.called
  /\ info' = [info EXCEPT !.rebuiltHost =
                [called |-> TRUE,
                 threw |-> host(info.rebuilt.s.request.s).threw,
                 out |-> host(info.rebuilt.s.request.s).out]]
  /\ UNCHANGED << coordinator, res >>

\* Per request metadata and the shoebox the application filled.
Metadatas == {Undefined, Some("metadata")}
Shoeboxes == {Undefined, Some("key1" :> << "a" >>)}

\* ember-app.js:87-91: a FastBootInfo built for every request (or none),
\* whitelist, metadata and shoebox of the bounds.
InitInfo ==
  /\ _instance = 0
  /\ isWorking = FALSE
  /\ _isWorking = FALSE
  /\ _shouldDestroyInstance = FALSE
  /\ _appConfig = 0
  /\ config = [sandboxGlobals |-> 0, resilient |-> FALSE, browser |-> TRUE,
               distPath |-> 0]
  /\ _httpServer = FALSE
  /\ apps = [i \in Apps |-> NoApp]
  /\ nApps = 0
  /\ visits = [v \in Visits |-> NewVisit]
  /\ nReloads = 0
  /\ res = NewResult(<< >>, 0, "")
  /\ info \in {[NewInfo EXCEPT !.obj =
                  FastBootInfo(r, RawResponse,
                               [hostWhitelist |-> w, metadata |-> m], sb)] :
                 r \in {Undefined} \cup {Some(x) : x \in RawRequests},
                 w \in Whitelists, m \in Metadatas, sb \in Shoeboxes}
  /\ proc = Constructed

NextInfo ==
  \/ InfoHost
  \/ InfoSerialize
  \/ InfoReconstruct
  \/ InfoRebuiltHost

SpecInfo == InitInfo /\ [][NextInfo]_vars

\* Whitelists of one entry: a host, a regular expression, a lone slash.
OneEntryWhitelists ==
  {Undefined} \cup {Some(<< e >>) : e \in {<< "a" >>, << "/", "a", "/" >>, << "/" >>}}

\* ember-app.js:87-91, with the whitelists of one entry.
InitRoundTrip ==
  /\ _instance = 0
  /\ isWorking = FALSE
  /\ _isWorking = FALSE
  /\ _shouldDestroyInstance = FALSE
  /\ _appConfig = 0
  /\ config = [sandboxGlobals |-> 0, resilient |-> FALSE, browser |-> TRUE,
               distPath |-> 0]
  /\ _httpServer = FALSE
  /\ apps = [i \in Apps |-> NoApp]
  /\ nApps = 0
  /\ visits = [v \in Visits |-> NewVisit]
  /\ nReloads = 0
  /\ res = NewResult(<< >>, 0, "")
  /\ info \in {[NewInfo EXCEPT !.obj =
                  FastBootInfo(r, RawResponse,
                               [hostWhitelist |-> w, metadata |-> m], sb)] :
                 r \in {Undefined} \cup {Some(x) : x \in RawRequests},
                 w \in OneEntryWhitelists, m \in Metadatas, sb \in Shoeboxes}
  /\ proc = Constructed

SpecRoundTrip == InitRoundTrip /\ [][NextInfo]_vars

-----------------------------------------------------------------------------
(* Deferred rendering: deferRendering and the await of runAppInstance *)

PromiseStates == {"pending", "fulfilled", "rejected"}

\* deferRendering assigning `promise` itself to this.deferredPromise
\* (index.js:315-317 without the then).
ThenDetached(prev, promise) == promise

\* index.js:315-317: the state of `prev.then(function() { return promise; })`.
\* The callback runs once prev is fulfilled and the new promise follows the one
\* it returns; a rejected prev rejects the new promise without the callback.
Then(prev, promise) ==
  CASE prev = "pending" -> "pending"
    [] prev = "rejected" -> "rejected"
    [] prev = "fulfilled" -> promise

\* index.js:296 and 314-318: the state of this.deferredPromise as it stood
\* after the first n calls of deferRendering, given the promises' states.
RECURSIVE deferredPromise(_, _)
deferredPromise(promises, n) ==
  IF n = 0 THEN "fulfilled"
  ELSE Then(deferredPromise(promises, n - 1), promises[n])

\* index.js:314-318: the application calls deferRendering with a promise, which
\* may be settled already, before runAppInstance's function is over.
DeferRendering ==
  /\ Len(info.promises) < MaxDeferred
  /\ info.returned = "no"
  /\ \E st \in PromiseStates :
       info' = [info EXCEPT !.promises = Append(@, st)]
  /\ UNCHANGED << coordinator, res >>

\* A promise given to deferRendering is fulfilled or rejected.
PromiseSettles ==
  /\ \E i \in 1..Len(info.promises) : \E st \in {"fulfilled", "rejected"} :
       /\ info.promises[i] = "pending"
       /\ info' = [info EXCEPT !.promises[i] = st]
  /\ UNCHANGED << coordinator, res >>

\* ember-app.js:358: runAppInstance's function reads fastbootInfo.deferredPromise
\* and awaits it.
AwaitDeferred ==
  /\ info.awaited = -1
  /\ info' = [info EXCEPT !.awaited = Len(info.promises)]
  /\ UNCHANGED << coordinator, res >>

\* ember-app.js:358-359: the awaited promise is settled; the function returns
\* fastbootInfo.serialize(), or throws what the promise was rejected with.
AfterDeferred ==
  /\ info.awaited >= 0
  /\ info.returned = "no"
  /\ deferredPromise(info.promises, info.awaited) # "pending"
  /\ info' = [info EXCEPT !.returned =
                IF deferredPromise(info.promises, info.awaited) = "fulfilled"
                THEN "serialized" ELSE "threw"]
  /\ UNCHANGED << coordinator, res >>

\* ember-app.js:347: the FastBootInfo built in the page for a visit.
InitDefer ==
  /\ _instance = 0
  /\ isWorking = FALSE
  /\ _isWorking = FALSE
  /\ _shouldDestroyInstance = FALSE
  /\ _appConfig = 0
  /\ config = [sandboxGlobals |-> 0, resilient |-> FALSE, browser |-> TRUE,
               distPath |-> 0]
  /\ _httpServer = FALSE
  /\ apps = [i \in Apps |-> NoApp]
  /\ nApps = 0
  /\ visits = [v \in Visits |-> NewVisit]
  /\ nReloads = 0
  /\ res = NewResult(<< >>, 0, "")
  /\ info = NewInfo
  /\ proc = Constructed

NextDefer ==
  \/ DeferRendering
  \/ PromiseSettles
  \/ AwaitDeferred
  \/ AfterDeferred

SpecDefer == InitDefer /\ [][NextDefer]_vars

-----------------------------------------------------------------------------
(* The coordinator's construction and its close *)

\* The options of the constructor: distPath tells whether they have a truthy
\* distPath, and dist is its value.
ConstructOptions ==
  [ distPath : BOOLEAN, dist : DistPaths, sandboxGlobals : {FALSE},
    resilient : {"undef", "true", "false"}, browser : BOOLEAN ]

\* index.js:53-70: new PowerBoot(options).  `options.distPath || null` makes
\* distPath an own property of the options; when _setOptions throws, the
\* constructor throws and no listener was put on the process.
Construct(o) ==
  /\ proc.constructed = "no"
  /\ LET opts == [o EXCEPT !.distPath = TRUE,
                           !.dist = IF o.distPath THEN o.dist ELSE Nil]
         set  == SetOptions(opts, 0)
     IN IF set.threw # "none"
        THEN /\ proc' = [proc EXCEPT !.constructed = "threw",
                                     !.dist = opts.dist,
                                     !.thrown = set.threw]
             /\ UNCHANGED << _instance, _isWorking, _shouldDestroyInstance,
                             _appConfig, config >>
        ELSE /\ proc' = [proc EXCEPT !.constructed = "yes",
                                     !.dist = opts.dist,
                                     !.hooks = @ \cup ProcessEvents]
             /\ _instance' = 0
             /\ _isWorking' = FALSE
             /\ _shouldDestroyInstance' = FALSE
             /\ _appConfig' = set.appConfig
             /\ config' = [set.config EXCEPT !.browser = o.browser]
  /\ UNCHANGED << isWorking, _httpServer, apps, nApps, visits, nReloads, res,
                  info >>

\* index.js:161-167: the listeners close() takes off the process.
closeOff(hooks) == hooks \ ProcessEvents

\* index.js:160-167: close() once the browser is dealt with.  The listeners
\* are taken off when `process.off` is there.
CloseRest(p) ==
  [p EXCEPT !.serverClosed = @ \/ _httpServer,
            !.hooks = IF p.off THEN closeOff(@) ELSE @,
            !.close = "done"]

\* index.js:158-159: a call of close().  With a browser, browser.close() is
\* called and awaited.
CloseStart ==
  /\ proc.constructed = "yes"
  /\ proc.close = "no"
  /\ proc' = IF config.browser
             THEN [proc EXCEPT !.browserClosed = TRUE, !.close = "awaitBrowser"]
             ELSE CloseRest(proc)
  /\ UNCHANGED << _instance, isWorking, _isWorking, _shouldDestroyInstance,
                  _appConfig, config, _httpServer, apps, nApps, visits,
                  nReloads, res, info >>

\* index.js:159-167: browser.close() settled.  When it rejected, close()
\* rejects there.
CloseBrowserDone ==
  /\ proc.close = "awaitBrowser"
  /\ \/ proc' = CloseRest(proc)
     \/ proc' = [proc EXCEPT !.close = "rejected"]
  /\ UNCHANGED << _instance, isWorking, _isWorking, _shouldDestroyInstance,
                  _appConfig, config, _httpServer, apps, nApps, visits,
                  nReloads, res, info >>

\* Before `new PowerBoot(options)`, in a process with or without `off`.
InitConfig ==
  /\ _instance = 0
  /\ isWorking = FALSE
  /\ _isWorking = FALSE
  /\ _shouldDestroyInstance = FALSE
  /\ _appConfig = 0
  /\ config = [sandboxGlobals |-> 0, resilient |-> FALSE, browser |-> FALSE,
               distPath |-> 0]
  /\ _httpServer = FALSE
  /\ apps = [i \in Apps |-> NoApp]
  /\ nApps = 0
  /\ visits = [v \in Visits |-> NewVisit]
  /\ nReloads = 0
  /\ res = NewResult(<< >>, 0, "")
  /\ info = NewInfo
  /\ proc \in {[NewProcess EXCEPT !.off = b] : b \in BOOLEAN}

\* reload() and reload({distPath}) with any distPath.
DistReloadOptions ==
  {o \in AllReloadOptions : /\ ~o.sandboxGlobals /\ o.resilient = "undef"
                            /\ (o.distPath \/ o.dist = Nil)}

\* Runs of a coordinator from its construction to its close: plain visits
\* and reloads with any distPath, then close() when no visit is in flight.
NextConfig ==
  \/ \E o \in ConstructOptions : Construct(o)
  \/ \E o \in DistReloadOptions : Reload(o, MaxReloads)
  \/ /\ proc.close = "no"
     /\ \E v \in DetailedVisits : \E o \in PlainVisitOptions :
          VisitStart(v, o, MaxDetailedVisits)
  \/ \E v \in DetailedVisits : AcquireStep(v)
  \/ \E v \in DetailedVisits : RenderStep(v)
  \/ InFlight = {} /\ CloseStart
  \/ CloseBrowserDone

SpecConfig == InitConfig /\ [][NextConfig]_vars

-----------------------------------------------------------------------------
(* Claims *)

\* v's call of visit is made in this step.
Called(v) == visits[v].pc = "idle" /\ visits'[v].pc # "idle"

\* v's call of visit settles in this step.
Settles(v) == visits[v].pc # "done" /\ visits'[v].pc = "done"

\* EmberApp.visit starts executing for v in this step.
Begins(v) == visits[v].pc \notin Executing /\ visits'[v].pc \in Executing

\* A visit other than v is executing on instance i.
BusyFor(v, i) ==
  \E u \in Visits \ {v} : visits[u].pc \in Executing /\ visits[u].instance = i

\* A visit is executing on instance i.
Busy(i) == \E u \in Visits : visits[u].pc \in Executing /\ visits[u].instance = i

\* C1: at most one visit executes against an instance at a time, and a caller
\* passes the generator's exit (it is yielded the pooled instance, or `true`
\* for it) only when no other visit is executing on the pooled instance.
C1_SingleFlight ==
  /\ [](\A u, v \in Visits :
          (u # v /\ visits[u].pc \in Executing /\ visits[v].pc \in Executing)
            => visits[u].instance # visits[v].instance)
  /\ [][\A v \in Visits :
          (visits[v].instance = 0 /\ visits'[v].instance \in {_instance, TrueVal}
             /\ _instance # 0)
            => ~BusyFor(v, _instance)]_vars

\* C2: a visit called when the only earlier visit has completed successfully on
\* the pooled instance, with no reload made, is served by that same instance, and
\* no instance starts its boot injection more than once.
C2_SequentialReuse ==
  /\ [](\A i \in Apps : apps[i].bootCount <= 1)
  /\ [][\A u, v \in Visits :
          (/\ Called(v)
           /\ nReloads = 0
           /\ InFlight = {}
           /\ visits[u].pc = "done" /\ visits[u].outcome = "resolved"
           /\ visits[u].instance = _instance /\ _instance # 0
           /\ _httpServer /\ config.browser)
            => /\ visits'[v].instance = visits[u].instance
               /\ visits'[v].outcome # "rejected"
               /\ apps'[_instance].bootCount = 1]_vars

\* C3: the local resilient of a visit is options.resilient when defined and the
\* configured value otherwise; a visit that got a result rejects with exactly
\* result.error when that is set and resilient is false, and resolves otherwise.
C3_RejectsUnlessResilient ==
  /\ [][\A v \in Visits :
          Called(v) =>
            visits'[v].resilient =
              (IF visits'[v].optResilient = "undef" THEN config.resilient
               ELSE visits'[v].optResilient = "true")]_vars
  /\ [][\A v \in Visits :
          (Settles(v) /\ visits'[v].result) =>
            IF ~visits[v].resilient /\ visits'[v].error # NoError
            THEN /\ visits'[v].outcome = "rejected"
                 /\ visits'[v].rejection = visits'[v].error
            ELSE visits'[v].outcome = "resolved"]_vars

\* C4: a resilient visit whose render raised an error resolves with a result on
\* which html() gives a string.
C4_ResilientBestEffort ==
  \A v \in Visits :
    (/\ visits[v].pc = "done"
     /\ visits[v].resilient
     /\ visits[v].result
     /\ visits[v].error # NoError)
      => /\ visits[v].outcome = "resolved"
         /\ Html(visits[v]) = "string"

\* C5: when the deadline timer fired before the in-context visit had completed
\* and its forced reload succeeded, a non-resilient visit has rejected with
\* 'App instance was forcefully destroyed in Nms'.
C5_DeadlineSurfaces ==
  \A v \in Visits :
    (/\ visits[v].pc = "done"
     /\ visits[v].result
     /\ visits[v].timer = "fired"
     /\ visits[v].firedEarly
     /\ ~visits[v].resilient)
      => /\ visits[v].outcome = "rejected"
         /\ visits[v].rejection = DeadlineError(visits[v].ms)

\* C6: a visit called with a positive destroyAppInstanceInMs eventually settles.
C6_VisitSettles ==
  \A v \in Visits :
    (visits[v].pc # "idle" /\ visits[v].ms > 0) ~> (visits[v].pc = "done")

\* C7: when the deadline handler of a visit ends, the visit's instance is no
\* longer held initialized by _visitRoute, so that its next visit boots again.
C7_RebootAfterDeadline ==
  [][\A v \in Visits :
       (/\ visits[v].timer \in {"armed", "reloading"}
        /\ visits'[v].timer \in {"fired", "failed"})
         => ~apps'[visits[v].instance].hasInitialized]_vars

\* C8: a reload called while a visit is executing on the pooled instance leaves
\* the instance in the slot, not destroyed, with the destroy mark set; no visit
\* executes on a destroyed instance.
C8_ReloadDefersDestroy ==
  /\ [][(nReloads' # nReloads /\ _instance # 0 /\ Busy(_instance))
          => /\ _instance' = _instance
             /\ ~apps'[_instance].destroyed
             /\ _shouldDestroyInstance']_vars
  /\ [](\A v \in Visits :
          visits[v].pc \in Executing => ~apps[visits[v].instance].destroyed)

\* C9: a reload called while the slot holds an instance on which no visit is
\* executing destroys that instance, empties the slot and clears the destroy
\* mark; a visit that starts executing while the slot is empty does so on an
\* instance created for it.
C9_IdleReloadDestroys ==
  /\ [][(nReloads' # nReloads /\ _instance # 0 /\ ~Busy(_instance))
          => /\ apps'[_instance].destroyed
             /\ _instance' = 0
             /\ ~_shouldDestroyInstance']_vars
  /\ [][\A v \in Visits :
          (Begins(v) /\ _instance = 0)
            => /\ ~apps[visits'[v].instance].exists
               /\ apps'[visits'[v].instance].exists
               /\ ~apps'[visits'[v].instance].destroyed
               /\ _instance' = visits'[v].instance]_vars

\* C9, reached: after a reload destroyed the idle instance of a completed
\* visit, a later visit is executing on a newer instance held in the slot.
C9_Witness ==
  \E u, v \in Visits :
    /\ nReloads >= 1
    /\ visits[u].pc = "done" /\ visits[u].outcome = "resolved"
    /\ visits[u].instance \in Apps /\ apps[visits[u].instance].destroyed
    /\ visits[v].pc \in Executing
    /\ visits[v].instance > visits[u].instance
    /\ _instance = visits[v].instance
    /\ ~apps[visits[v].instance].destroyed
    /\ ~_shouldDestroyInstance

\* C10: an instance is constructed from the parsed manifest and the
\* sandboxGlobals that the coordinator holds when it is created (those set by
\* the last reload that returned, or by the constructor).
C10_FreshConfig ==
  [][\A i \in Apps :
       (~apps[i].exists /\ apps'[i].exists)
         => /\ apps'[i].config = _appConfig
            /\ apps'[i].sandboxGlobals = config.sandboxGlobals]_vars

\* C11: every instance created and not destroyed is the one held in the pool
\* slot, so that at most one instance is alive at a time.
C11_OneAliveInstance ==
  \A i \in Apps : (apps[i].exists /\ ~apps[i].destroyed) => _instance = i

\* C12: a call of visit creates a listener only when none was created before,
\* and launches a browser only when none was launched or supplied before.
C12_SharedHandlesOnce ==
  [][\A v \in Visits :
       /\ (visits[v].pc # "awaitServer" /\ visits'[v].pc = "awaitServer")
            => /\ ~_httpServer
               /\ \A u \in Visits \ {v} : visits[u].pc # "awaitServer"
       /\ (visits[v].pc # "awaitBrowser" /\ visits'[v].pc = "awaitBrowser")
            => /\ ~config.browser
               /\ \A u \in Visits \ {v} : visits[u].pc # "awaitBrowser"]_vars

\* C13: a visit that retries because the instance is marked working eventually
\* settles with a result of its own render.
C13_WaiterAcquires ==
  \A v \in Visits :
    (visits[v].pc = "tick") ~> (visits[v].pc = "done" /\ visits[v].result)

\* C14: when no call of visit is in flight, the working flag is clear.
C14_FlagCleared == (InFlight = {}) => ~isWorking

\* The place the claimed order gives a step of EmberApp.visit: boot injection,
\* storage clear, content load, in-context visit, shoebox writing, finalize.
ClaimedOrder(pc) ==
  CASE pc = "boot" -> 1
    [] pc = "clear" -> 2
    [] pc = "setContent" -> 3
    [] pc \in {"run", "wedged"} -> 4
    [] pc = "shoebox" -> 5
    [] pc = "finalize" -> 6
    [] OTHER -> 0

\* C16: a visit goes through its steps in the order boot injection, storage
\* clear, content load, in-context visit, shoebox writing, finalize: it never
\* passes from a step to one that comes earlier in this order.
C16_StepOrder ==
  [][\A v \in Visits :
       (visits[v].pc \in Executing /\ visits'[v].pc \in Executing)
         => ClaimedOrder(visits[v].pc) <= ClaimedOrder(visits'[v].pc)]_vars

\* C15: no instance starts its boot injection more than once, over the visits
\* made on it.
C15_BootAtMostOnce == \A i \in Apps : apps[i].bootCount <= 1

\* C15, reached: a visit runs the application on an instance that an earlier,
\* completed visit booted, without having started the boot injection again.
C15_Witness ==
  \E u, v \in Visits :
    /\ u # v
    /\ visits[u].pc = "done" /\ visits[u].finalized
    /\ visits[v].instance = visits[u].instance
    /\ visits[v].pc = "run"
    /\ App(v).bootCount = 1

\* C17: when a visit has cleared the storage and goes on to the boot injection
\* or to running the application, no kind of storage of the page holds data;
\* and clearing the storage does not end the visit with a TypeError.
C17_StorageReset ==
  [][\A v \in Visits :
       /\ (visits[v].pc = "clear" /\ visits'[v].pc \in {"boot", "run", "wedged"})
            => apps'[visits[v].instance].stored = {}
       /\ (visits[v].pc = "clear" /\ Settles(v) /\ ~App(v).destroyed)
            => visits'[v].error # TypeError]_vars

\* C18: a call of _finalize made after an earlier call on the same result
\* throws 'Results cannot be finalized more than once' and starts no cleanup
\* evaluation.
C18_FinalizeOnce ==
  [][(res'.calls = res.calls + 1 /\ res.calls >= 1)
       => (res'.rejected /\ res'.cleanups = res.cleanups)]_vars

\* C19: html() returns the empty string for status 204; for a status in
\* 300..399 the synthesized document with the 'Redirecting to' anchor when the
\* response has a location header and with the placeholder body otherwise; for
\* any other status the harvested document.
C19_HtmlByStatus ==
  res.htmlRes.called =>
    LET status == StatusCode(res.statusCode)
        out    == res.htmlRes.out
    IN CASE status = 204 -> out = Str(<< >>)
         [] status \in 300..399 ->
              IF res.location # ""
              THEN out = Str(<< "<html><head>", "</head>",
                                "<body><h1>Redirecting to <a href=\"", res.location,
                                "\">", res.location, "</a></h1></body></html>" >>)
              ELSE out = Str(<< "<html><head>", "</head>",
                                "<body><!-- EMBER_CLI_FASTBOOT_BODY --></body></html>" >>)
         [] OTHER -> res.htmlRes.cached.def
                       => out = Str(_reflectContents(res.page))

\* C19, reached: html() was called on a harvested result at the lowest
\* redirect status with a location header, and returned a document.
C19_Witness ==
  /\ res.htmlRes.called
  /\ res.htmlRes.cached.def
  /\ res.statusCode = 300
  /\ res.location # ""
  /\ res.htmlRes.out.def

\* The concatenation of a sequence of strings.
RECURSIVE Concat(_)
Concat(ss) == IF ss = << >> THEN << >> ELSE Head(ss) \o Concat(Tail(ss))

\* C20: chunks() on a cached document returns chunks whose concatenation, in
\* order, is the cached document.
C20_ChunksReproduce ==
  (res.chunksRes.called /\ res.chunksRes.cached.def)
    => /\ ~res.chunksRes.threw
       /\ Concat(res.chunksRes.chunks) = res.chunksRes.cached.s

\* C20, reached: chunks() was called on a harvested document with two shoebox
\* scripts and returned four chunks.
C20_Witness ==
  /\ res.chunksRes.called
  /\ res.chunksRes.cached = Str(_reflectContents(res.page))
  /\ res.page = << SHOEBOX_TAG_PATTERN, SHOEBOX_TAG_PATTERN >>
  /\ Len(res.chunksRes.chunks) = 4

\* The number of shoebox tags of a string.
ShoeboxTags(s) == Cardinality({i \in 1..Len(s) : s[i] = SHOEBOX_TAG_PATTERN})

\* C21: chunks() on a cached document with k shoebox tags returns 2 + k chunks
\* (2 when it has none, never fewer): the first is the document through
\* "</head>", the second the body up to the first shoebox tag, and every
\* further chunk starts with the shoebox tag pattern.
C21_ChunkCount ==
  (res.chunksRes.called /\ res.chunksRes.cached.def /\ ~res.chunksRes.threw)
    => LET cs == res.chunksRes.chunks
       IN /\ Len(cs) >= 2
          /\ Len(cs) = 2 + ShoeboxTags(res.chunksRes.cached.s)
          /\ cs[1] # << >> /\ cs[1][Len(cs[1])] = HeadEnd
          /\ ShoeboxTags(cs[2]) = 0
          /\ \A i \in 3..Len(cs) :
               cs[i] # << >> /\ cs[i][1] = SHOEBOX_TAG_PATTERN

\* The string has no "</head>" with text after it.
NoHeadOrBody(s) ==
  \/ \A i \in 1..Len(s) : s[i] # HeadEnd
  \/ s[Len(s)] = HeadEnd

\* C22: chunks() throws its structural error whenever the head or the body
\* cannot be located in the cached document (no "</head>", an empty document,
\* nothing after "</head>"), and returns no chunks for such a document.
C22_ChunksRejectsMalformed ==
  (res.chunksRes.called /\ res.chunksRes.cached.def
     /\ NoHeadOrBody(res.chunksRes.cached.s))
    => (res.chunksRes.threw /\ res.chunksRes.chunks = << >>)

\* The number of children of a body that are the element el.
Occurrences(body, el) == Cardinality({i \in 1..Len(body) : body[i] = el})

IsContent(el) == el \notin SrcScripts \cup {BoundaryStart, BoundaryEnd}

\* The harvested body `after` of a page whose body had the children `before`:
\* one start boundary, as the first child, one end boundary, the scripts with
\* a src behind the end boundary in the order they had, everything else
\* between the two boundaries in the order it had.
Marked(before, after) ==
  /\ after.def
  /\ Occurrences(after.s, BoundaryStart) = 1
  /\ Occurrences(after.s, BoundaryEnd) = 1
  /\ after.s[1] = BoundaryStart
  /\ \E e \in 2..Len(after.s) :
       /\ after.s[e] = BoundaryEnd
       /\ SubSeq(after.s, 2, e - 1) = SelectSeq(before, IsContent)
       /\ SubSeq(after.s, e + 1, Len(after.s)) = SelectSeq(before, IsSrcScript)

\* C23: after every setContent and every evaluate, in any sequence, the
\* harvested body has exactly one start boundary, as its first child, and
\* exactly one end boundary; every top-level script with a src stands behind
\* the end boundary, in its original relative order, and all other content
\* stands between the two boundaries.
C23_BoundaryMarkers ==
  [][/\ ResultSetContent(NoPageError) => Marked(res.page, res'._body)
     /\ ResultEvaluate(NoPageError) => Marked(res.dom, res'._body)]_vars

\* C23, reached: a page that was harvested before, whose body began with a
\* script with a src, is harvested; the script stands behind the end boundary.
C23_Witness ==
  /\ res.page = << ScriptSrcA, "<p>" >>
  /\ res.dom = << BoundaryStart, "<p>", BoundaryEnd, ScriptSrcA >>
  /\ res._body = Str(res.dom)

\* C24: a call of domContents() made after an earlier call, with no setContent,
\* evaluate or finalize in between, returns the pair the earlier call returned.
C24_DomContentsIdempotent ==
  res.domRes.called
    => domContents(res) = [head |-> res.domRes.head, body |-> res.domRes.body]

\* The escape the claim gives for a character of the JSON text.
Escaped(c) ==
  CASE c = "&"     -> << "\\", "u", "0", "0", "2", "6" >>
    [] c = "<"     -> << "\\", "u", "0", "0", "3", "c" >>
    [] c = ">"     -> << "\\", "u", "0", "0", "3", "e" >>
    [] c = LineSep -> << "\\", "u", "2", "0", "2", "8" >>
    [] c = ParaSep -> << "\\", "u", "2", "0", "2", "9" >>
    [] OTHER       -> << c >>

\* C25: the text written for a shoebox value is the value's JSON with every
\* '&', '<', '>', U+2028 and U+2029 replaced by its \uXXXX escape and nothing
\* else changed; it holds no raw '<', '>' or '&', and JSON.parse of it gives
\* the value back.
C25_ShoeboxEscaping ==
  info.text.def =>
    LET json == JSONstringify(info.value)
    IN /\ info.text.s = Concat([i \in 1..Len(json) |-> Escaped(json[i])])
       /\ \A i \in 1..Len(info.text.s) : info.text.s[i] \notin {"<", ">", "&"}
       /\ info.parsed.def => info.parsed.s = info.value

\* C25, reached: a value with an ampersand and a backslash was written and
\* parsed back.
C25_Witness ==
  /\ info.value = << "&", Backslash >>
  /\ info.text.def
  /\ info.parsed = Str(info.value)

\* C26: when disableShoebox is not set, a visit has written one shoebox script
\* element for every own key of the shoebox runAppInstance returned by the
\* time it enters _finalize; when disableShoebox is true it has written none.
C26_ShoeboxWritten ==
  [][\A v \in Visits :
       (visits[v].pc # "finalize" /\ visits'[v].pc = "finalize")
         => visits'[v].written = IF visits'[v].disableShoebox THEN 0
                                 ELSE visits'[v].shoebox]_vars

\* The message of the error says that the target or the session was closed.
IndicatesClosed(err) ==
  /\ err.message.def
  /\ \E i \in 1..Len(err.message.s) :
       err.message.s[i] \in {"Target closed.", "Session closed."}

\* C27: setContent and evaluate swallow exactly the errors whose message says
\* that the target or the session was closed; every other error of the page,
\* one with an empty or a missing message included, is thrown to the caller.
C27_SwallowsOnlyClosed ==
  res.caught.thrown => (res.rethrown <=> ~IndicatesClosed(res.caught))

\* The entry is written between two slashes.
SlashDelimited(entry) ==
  Len(entry) >= 2 /\ entry[1] = "/" /\ entry[Len(entry)] = "/"

\* The entry of a whitelist matches the Host header: by a test of the regular
\* expression between its slashes, or by being the same string.
Matches(entry, header) ==
  IF SlashDelimited(entry)
  THEN RegExpTest(SubSeq(entry, 2, Len(entry) - 1), header)
  ELSE entry = header

\* C28: host() returns the request's Host header exactly when a host whitelist
\* is configured and at least one of its entries matches the header, by string
\* equality or, for an entry written as /.../, by a regular expression test;
\* otherwise it fails with an error.
C28_HostWhitelist ==
  info.hostRes.called =>
    LET req    == info.obj.request.s
        header == HeadersGet(req.headers, "Host")
        ok     == /\ req.hostWhitelist.def
                  /\ \E i \in 1..Len(req.hostWhitelist.s) :
                       Matches(req.hostWhitelist.s[i], header.s)
    IN IF ok THEN ~info.hostRes.threw /\ info.hostRes.out = header
       ELSE info.hostRes.threw

\* C30: the object built from the four-slot tuple that serialize returned
\* behaves like the serialized one for host() and for the cookies, and carries
\* the same metadata and the same shoebox.
C30_RoundTrip ==
  info.rebuilt.def =>
    LET old == info.obj
        new == info.rebuilt.s
    IN /\ Len(info.tuple.s) = 4
       /\ new.request.def = old.request.def
       /\ new.request.def => new.request.s.cookies = old.request.s.cookies
       /\ (info.hostRes.called /\ info.rebuiltHost.called)
            => info.rebuiltHost = info.hostRes
       /\ new.metadata = old.metadata
       /\ new.shoebox = old.shoebox

\* C30, reached: an info with a request, a whitelist entry that is a regular
\* expression matching its Host header, cookies parsed from its Cookie header,
\* metadata and a shoebox was serialized and built again, and host() returned
\* the header on both objects.
C30_Witness ==
  /\ info.rebuilt.def
  /\ info.obj.request.def
  /\ info.obj.request.s.hostWhitelist = Some(<< << "/", "a", "/" >> >>)
  /\ info.obj.request.s.cookies = ("foo" :> "bar")
  /\ info.obj.metadata.def
  /\ info.obj.shoebox.def
  /\ info.hostRes.called /\ ~info.hostRes.threw
  /\ info.rebuiltHost.called /\ ~info.rebuiltHost.threw

\* The promise is fulfilled or rejected.
IsSettled(st) == st # "pending"

\* The chain as it stood after n registrations settles only after the chain
\* before it: the promises are waited for one after the other, in the order of
\* their registration.
InOrder ==
  \A n \in 1..Len(info.promises) :
    IsSettled(deferredPromise(info.promises, n))
      => IsSettled(deferredPromise(info.promises, n - 1))

SchemaVersionOf(f) ==
  IF f.schemaVersion # 0 THEN f.schemaVersion ELSE FastBootSchemaVersions.base

\* A distPath the constructor is to refuse: none, or a directory whose
\* package.json is missing, malformed, without a manifest section, or of a
\* schema version above the supported one.
Refused(d) ==
  \/ d.nil
  \/ ~d.file.exists
  \/ ~d.file.parses
  \/ ~d.file.fastboot
  \/ ~d.file.manifest
  \/ SchemaVersionOf(d.file) > FastBootSchemaVersions.latest

\* C31: a constructor called with such a distPath throws one of the
\* configuration errors, and the coordinator holds no listener on the process.
C31_ConstructorRejects ==
  (proc.constructed # "no" /\ Refused(proc.dist))
    => /\ proc.constructed = "threw"
       /\ proc.thrown \in ConfigurationErrors
       /\ proc.hooks = {}

\* C32: once close() has resolved, the browser and the listener that exist
\* were closed, and no event of the process holds a listener of the
\* coordinator.
C32_CloseReleases ==
  proc.close = "done"
    => /\ config.browser => proc.browserClosed
       /\ _httpServer => proc.serverClosed
       /\ proc.hooks \cap ProcessEvents = {}

\* Visit v ends in this step with its catch having got an error.
Catches(v) ==
  /\ visits[v].pc # "done"
  /\ visits'[v].pc = "done"
  /\ visits'[v].caught # NoError

\* C33: the error the catch of EmberApp.visit gets becomes the result's error,
\* except when the deadline timer has fired and the error is of the
\* context-destroyed or disconnected kind: the result's error is then left as
\* it was.
C33_CatchRecords ==
  [][\A v \in Visits :
       Catches(v) =>
         IF /\ visits[v].timer \in {"reloading", "fired", "failed"}
            /\ visits'[v].caught \in {CtxDestroyed, Disconnected}
         THEN visits'[v].error = visits[v].error
         ELSE visits'[v].error = visits'[v].caught]_vars

\* A visit whose timer had fired ended on a context-destroyed error that was
\* left off its result, and a visit whose timer had not fired ended on one
\* that is on its result.
C33_Witness ==
  /\ \E v \in Visits :
       /\ visits[v].pc = "done"
       /\ visits[v].caught = CtxDestroyed
       /\ visits[v].error # CtxDestroyed
       /\ visits[v].timer \in {"reloading", "fired", "failed"}
  /\ \E v \in Visits :
       /\ visits[v].pc = "done"
       /\ visits[v].caught = CtxDestroyed
       /\ visits[v].error = CtxDestroyed
       /\ visits[v].timer \in {"none", "cleared"}

\* The deadline timer of the visit has fired.
Fired(rec) == rec.timer \in {"reloading", "fired", "failed"}

\* C34: a visit that ends leaves no timer armed, and once a visit has ended
\* with its timer not fired, the timer never fires: no forced reload is
\* started and the error of its result stays as it is.
C34_TimerCancelled ==
  [][\A v \in Visits :
       /\ visits'[v].pc = "done" => visits'[v].timer # "armed"
       /\ (visits[v].pc = "done" /\ ~Fired(visits[v]))
            => /\ ~Fired(visits'[v])
               /\ visits'[v].error = visits[v].error]_vars

\* Two visits with a deadline ended before their timer fired, one of them
\* with an error, and the timers were cancelled.
C34_Witness ==
  \E u, v \in Visits :
    /\ visits[u].pc = "done" /\ visits[u].timer = "cleared"
    /\ visits[u].error = NoError
    /\ visits[v].pc = "done" /\ visits[v].timer = "cleared"
    /\ visits[v].error # NoError

\* runAppInstance of visit v ends in this step by throwing, or by returning
\* nothing on a closed page.
RunFails(v) ==
  /\ visits[v].pc \in {"run", "wedged"}
  /\ visits'[v].pc \notin {"run", "wedged"}
  /\ visits'[v].captured # NoError \/ App(v).destroyed

\* C35: when runAppInstance throws or returns nothing, the result gets an
\* info built from the default, which has no shoebox to write, and _finalize
\* is entered; an error captured from runAppInstance leaves the visit only
\* from _finalize, and when the result was finalized it is that error.
C35_FinalizeBeforeRethrow ==
  [][\A v \in Visits :
       /\ RunFails(v) => /\ visits'[v].hasInfo
                         /\ visits'[v].shoebox = 0
                         /\ visits'[v].written = 0
                         /\ visits'[v].pc = "finalize"
       /\ (visits[v].captured # NoError /\ visits'[v].pc = "done")
            => /\ visits[v].pc = "finalize"
               /\ visits[v].hasInfo
               /\ visits'[v].finalized => visits'[v].caught = visits[v].captured]_vars

\* A visit whose runAppInstance threw ended finalized, with an info, on the
\* error that was thrown.
C35_Witness ==
  \E v \in Visits :
    /\ visits[v].pc = "done"
    /\ visits[v].finalized
    /\ visits[v].hasInfo
    /\ visits[v].shoebox = 0
    /\ visits[v].caught = RenderError

\* PowerBoot.visit v calls _releaseInstance in this step: EmberApp.visit
\* returned its result (index.js:121-122).
Releases(v) ==
  /\ ~visits[v].direct
  /\ visits[v].pc \in Executing
  /\ visits'[v].pc = "done"
  /\ visits'[v].result

\* C36: a release that finds the mark set finds in the slot the instance the
\* releasing visit was using, and no step destroys an instance on which a
\* visit other than the releasing one is executing.
C36_ReleaseDestroysOwn ==
  [][/\ \A v \in Visits :
          (Releases(v) /\ _shouldDestroyInstance)
            => (_instance # 0 /\ _instance = visits[v].instance)
     /\ \A i \in Apps :
          (~apps[i].destroyed /\ apps'[i].destroyed)
            => \A u \in Visits :
                 (visits[u].instance = i /\ visits[u].pc \in Executing)
                   => Releases(u)]_vars

\* C37: once EmberApp.visit has returned the result of a visit, the error of
\* that result is not written again.
C37_ReturnedErrorFrozen ==
  [][\A v \in Visits :
       (visits[v].pc = "done" /\ visits[v].result)
         => visits'[v].error = visits[v].error]_vars

\* The boot injection of visit v fails in this step: the visit ends from it.
BootFails(v) ==
  /\ visits[v].pc = "boot"
  /\ visits'[v].pc = "done"

\* C38: when the boot injection of a visit fails, the instance is not held
\* initialized, so that the next visit on it starts the boot injection again.
C38_BootedOnlyWhenComplete ==
  [][\A v \in Visits :
       BootFails(v) => ~apps'[visits[v].instance].hasInitialized]_vars

\* A call of reload is made in this step and throws out of _setOptions.
ReloadFails ==
  /\ nReloads' = nReloads + 1
  /\ proc'.reloadThrew # "none"

\* C39: a reload that fails on its distPath leaves the slot, the instances,
\* the destroy mark and the parsed configuration as they were.
C39_FailedReloadKeeps ==
  [][ReloadFails => /\ _instance' = _instance
                    /\ apps' = apps
                    /\ _shouldDestroyInstance' = _shouldDestroyInstance
                    /\ isWorking' = isWorking
                    /\ _appConfig' = _appConfig]_vars

\* A reload failed on a missing package.json while the slot held an instance
\* that is alive and not marked.
C39_Witness ==
  /\ proc.reloadThrew = "notFound"
  /\ _instance # 0
  /\ ~apps[_instance].destroyed
  /\ ~_shouldDestroyInstance
  /\ _appConfig = 0

\* C40: a call of html() leaves what domContents() and chunks() return as it
\* was before the call, and a second call returns what the first returned.
C40_HtmlLeavesCache ==
  [][ResultHtml => /\ domContents(res') = domContents(res)
                   /\ chunks(res'._html) = chunks(res._html)
                   /\ html(res') = html(res)]_vars

====
